---- MODULE Spec2Model ----
(***************************************************************************)
(* StreamProcessor (src/src/utils/stream-processor.ts): one processStream  *)
(* run.  The decoder delivers data rows to the transformer, the            *)
(* transformer appends records to currentBatch and starts fire-and-forget  *)
(* processBatch calls, processBatch upserts the records of a batch one by  *)
(* one with retries behind the isProcessing guard, and processStream       *)
(* drains, builds the summary and disconnects.                             *)
(*                                                                         *)
(* Node runs every callback to its next await without interruption, so one *)
(* action is one such run-to-completion segment.                           *)
(*                                                                         *)
(* Further specifications over the same variables: SpecLongFile (a file    *)
(* with more rejected rows than a summary lists), SpecRecorded (Spec with  *)
(* the ids of the committed records kept as history), SpecImport           *)
(* (ImportController.handleImport, src/unnamed/part_005), SpecValidate     *)
(* (validateCsvHeaders), SpecParse (parseProductionCompanies) and SpecCast  *)
(* (parseCastNames, parseCast), all three from src/unnamed/part_001,       *)
(* SpecFields (the conversions of release_date, revenue and budget),       *)
(* SpecFair (a short file, with the fairness the termination needs),       *)
(* SpecKeepAlive (a run with the callbacks of its keep-alive timer),       *)
(* SpecHeaderStream (validateCsvHeaders with the events of its stream) and *)
(* SpecCsvService (CsvService.importMovies, src/unnamed/part_008).         *)
(***************************************************************************)
EXTENDS Integers, Sequences, FiniteSets, TLC

\* ---------------------------------------------------------------- bounds
MaxRows == 4          \* data rows the decoder delivers at most
MaxBatchSize == 2     \* largest configured batch size (config.csv.batchSize)
MaxErrorRows == 11    \* data rows of a long file (more than the summary lists)
ValidPrefix == 2      \* rows of a long file that may pass the validation
MaxFairRows == 3      \* data rows of a short file
MaxKeepAliveRows == 2 \* data rows of a file read while the keep-alive ticks
MaxTicks == 2         \* ticks of the keep-alive timer during one run

\* ------------------------------------------------------ program constants
MAX_RETRIES == 3
ErrorSampleCap == 10

\* ---------------------------------------------------------------- inputs
\* A raw CSV field: a column that is absent reads as undefined.
Undefined == "<undefined>"
Ids == {"a", "b"}
RawIds == {Undefined, ""} \cup Ids
RawTitles == {Undefined, "", "T"}
\* message of a rejected upsert: the storage's k-th rejection of a record
\* says so, which tells the last failure of a record from its earlier ones
UpsertErrors == <<"e1", "e2", "e3", "e4">>
TransformErrors == {"t1"}          \* message of an exception in transformRow
StreamErrorCodes == {"ERR_STREAM_PREMATURE_CLOSE", "EIO"}
RowNumbers == 1..MaxRows
LongFileRowNumbers == 1..MaxErrorRows

VARIABLES
    batchSize,         \* this.batchSize, set by the constructor
    pc,                \* position of processStream
    rowNumber,         \* createTransformer: let rowNumber
    currentBatch,      \* this.currentBatch
    isProcessing,      \* this.isProcessing
    processedCount,    \* this.processedCount
    errorRows,         \* this.errorRows
    processingActive,  \* this.processingActive
    keepAliveInterval, \* this.keepAliveInterval is set
    waiters,           \* fire-and-forget processBatch calls polling the guard
    flushOwner,        \* who runs the flush in flight: "none", "ff", "main"
    batchToProcess,    \* processBatch: const batchToProcess
    idx,               \* position of the for loop in batchToProcess
    retries,           \* processBatch: let retries
    insertedCount,     \* processBatch: let insertedCount
    result,            \* <<summary>> once built, <<>> before
    pipelineError,     \* code of the error the pipeline rejected with, "" if none
    thrown,            \* what processStream threw, "" if nothing yet
    \* history, read by the properties only
    lacking,           \* rows delivered with id or title missing or empty
    lastUpsert,        \* the last upsert call: its row, its ordinal among the
                       \* calls for that row, and its error ("" when it resolved)
    outcome,           \* row -> what became of it
    flushSizes,        \* sizes of the non-empty batches taken, in order
    disconnects,       \* calls of this.prisma.$disconnect() issued by processStream
    committedIds,      \* ids of the records whose upsert has succeeded
    \* startKeepAlive: the callbacks of the timer
    pings,             \* callbacks awaiting this.prisma.$queryRaw`SELECT 1`
    reconnects,        \* callbacks awaiting this.prisma.$disconnect()
    prismaClients,     \* PrismaClient objects constructed so far
    ticks,             \* history: times the timer has fired
    failedPings,       \* history: pings that were rejected
    reconnectAttempts, \* history: $disconnect calls that followed one
    \* CsvService.importMovies (src/unnamed/part_008): one call
    csvPc,             \* position of importMovies
    csvRowNumber,      \* createTransformer: let rowNumber
    csvBatch,          \* importMovies: let batch, shared by both transforms
    csvErrorRows,      \* importMovies: let errorRows
    csvProcessedCount, \* importMovies: let processedCount
    csvCounted,        \* createBatchProcessor: its parameter processedCount
    csvAwaiting,       \* the handler awaiting processBatch: "transform",
                       \* "flush", "none"
    csvRet,            \* <<what importMovies is about to return or throw>>
    csvInserts,        \* history: the processBatch calls, their sizes and ends
    \* validateCsvHeaders (src/unnamed/part_001): the stream it listens to
    streamState,       \* "open", "ended", "errored", "closed"
    chunksLength,      \* chunks.length
    \* ImportController.handleImport (src/unnamed/part_005): one request
    hPc,               \* position of handleImport
    upload,            \* the multipart request: its file part, if any
    tempFilePath,      \* let tempFilePath is set
    tempFile,          \* the temporary file: "none", "exists", "removed"
    unread,            \* data rows the upload stream has not delivered yet
    hTransformed,      \* rows handed to a transformer for this request
    hUpserts,          \* records of this request given to an upsert
    hOutcome,          \* what handleImport returned or threw, "" before
    \* a call of one of the pure functions (validator.ts, parser.ts)
    arg,               \* the argument of the call
    ret                \* <<>> before the call, then the results in order

keepAliveVars ==
    <<pings, reconnects, prismaClients, ticks, failedPings, reconnectAttempts>>
runVars ==
    <<batchSize, pc, rowNumber, currentBatch, isProcessing, processedCount, errorRows,
      processingActive, keepAliveInterval, waiters, flushOwner,
      batchToProcess, idx, retries, insertedCount, result, pipelineError,
      thrown, lacking, lastUpsert, outcome, flushSizes, disconnects,
      committedIds>>
processorVars == <<runVars, keepAliveVars>>
importVars ==
    <<hPc, upload, tempFilePath, tempFile, unread, hTransformed, hUpserts, hOutcome>>
callVars == <<arg, ret>>
csvVars ==
    <<csvPc, csvRowNumber, csvBatch, csvErrorRows, csvProcessedCount,
      csvCounted, csvAwaiting, csvRet, csvInserts>>
streamVars == <<streamState, chunksLength>>
\* CsvService.importMovies and the stream of validateCsvHeaders
otherVars == <<csvVars, streamVars>>
\* what processStream, its transformer and processBatch leave alone
restVars == <<importVars, callVars, keepAliveVars, otherVars>>

vars == <<processorVars, importVars, callVars, otherVars>>

flushVars == <<flushOwner, batchToProcess, idx, retries, insertedCount>>
histVars == <<lacking, lastUpsert, outcome, flushSizes>>

\* ------------------------------------------------------------- helpers
Min(a, b) == IF a < b THEN a ELSE b

\* JavaScript !v on a CSV field value (a string or undefined)
Falsy(v) == v = Undefined \/ v = ""

\* a validation that forgets the title
RowRejectedIdOnly(row) == Falsy(row.id)

\* createTransformer: if (!row.id || !row.title)
RowRejected(row) == Falsy(row.id) \/ Falsy(row.title)

MissingFieldError == <<"missing required field ID or title">>

\* transformRow: the record built from a row; id: String(originalId).  The
\* field row is not a field of the code's record: it names the data row the
\* record came from, for the properties.
transformRow(row, n) == [id |-> row.id, row |-> n]

\* processBatch: `处理记录ID ${item.id} 失败: ${errorMsg}`
RecordError(id, msg) == <<"record ID ", id, " failed: ", msg>>

\* a summary whose errorCount counts the listed errors only
SummaryCountsSample ==
    [success |-> TRUE,
     count |-> processedCount,
     errorCount |-> Min(ErrorSampleCap, Len(errorRows)),
     errors |-> SubSeq(errorRows, 1, Min(ErrorSampleCap, Len(errorRows)))]

\* a summary that reports a run without committed records as failed
SummaryFailsWithoutRecords ==
    [success |-> processedCount > 0,
     count |-> processedCount,
     errorCount |-> Len(errorRows),
     errors |-> SubSeq(errorRows, 1, Min(ErrorSampleCap, Len(errorRows)))]

\* processStream: the summary object
Summary ==
    [success |-> TRUE,
     count |-> processedCount,
     errorCount |-> Len(errorRows),
     errors |-> SubSeq(errorRows, 1, Min(ErrorSampleCap, Len(errorRows)))]

\* no request is being handled
NoImport ==
    /\ hPc = "idle"
    /\ upload = [file |-> FALSE]
    /\ tempFilePath = FALSE
    /\ tempFile = "none"
    /\ unread = 0
    /\ hTransformed = 0
    /\ hUpserts = 0
    /\ hOutcome = ""

\* importMovies is not being called and no stream is listened to
NoOther ==
    /\ csvPc = "idle"
    /\ csvRowNumber = 0
    /\ csvBatch = <<>>
    /\ csvErrorRows = <<>>
    /\ csvProcessedCount = 0
    /\ csvCounted = 0
    /\ csvAwaiting = "none"
    /\ csvRet = <<>>
    /\ csvInserts = <<>>
    /\ streamState = "open"
    /\ chunksLength = 0

\* no pure function is being called
NoCall ==
    /\ arg = <<>>
    /\ ret = <<>>

\* The constructor has run and processStream has set processingActive,
\* started the keep-alive and awaits the pipeline; no row has arrived yet.
FreshProcessor(rows) ==
    /\ pc = "pipeline"
    /\ rowNumber = 0
    /\ currentBatch = <<>>
    /\ isProcessing = FALSE
    /\ processedCount = 0
    /\ errorRows = <<>>
    /\ processingActive = TRUE
    /\ keepAliveInterval = TRUE
    /\ waiters = 0
    /\ flushOwner = "none"
    /\ batchToProcess = <<>>
    /\ idx = 0
    /\ retries = 0
    /\ insertedCount = 0
    /\ result = <<>>
    /\ pipelineError = ""
    /\ thrown = ""
    /\ lacking = {}
    /\ lastUpsert = [row |-> 0, n |-> 0, error |-> ""]
    /\ outcome = [n \in rows |-> "none"]
    /\ flushSizes = <<>>
    /\ disconnects = 0
    /\ committedIds = {}
    /\ pings = 0
    /\ reconnects = 0
    /\ prismaClients = 1
    /\ ticks = 0
    /\ failedPings = 0
    /\ reconnectAttempts = 0

Init ==
    /\ NoOther
    /\ NoImport
    /\ NoCall
    /\ batchSize \in 1..MaxBatchSize
    /\ FreshProcessor(RowNumbers)

\* the processor of a specification that runs none
NoProcessor ==
    /\ batchSize = 1
    /\ FreshProcessor(RowNumbers)

\* history: the rows of a batch that a flush has taken
Taken(out, batch) ==
    [n \in DOMAIN out |->
        IF \E i \in 1..Len(batch) : batch[i].row = n THEN "flushing" ELSE out[n]]

\* a processBatch that takes the batch without looking at the guard
EnterProcessBatchUnguarded(owner, batch, out) ==
    IF batch = <<>>
    THEN /\ currentBatch' = <<>>
         /\ outcome' = out
         /\ UNCHANGED <<isProcessing, waiters, flushVars, flushSizes>>
    ELSE /\ isProcessing' = TRUE
         /\ batchToProcess' = batch
         /\ currentBatch' = <<>>
         /\ flushOwner' = owner
         /\ idx' = 1
         /\ retries' = 0
         /\ insertedCount' = 0
         /\ flushSizes' = Append(flushSizes, Len(batch))
         /\ outcome' = Taken(out, batch)
         /\ UNCHANGED waiters

\* processBatch, from its call to its first await, called by `owner` when
\* this.currentBatch is `batch` (and the history of the rows is `out`): poll
\* the guard, or take the batch.  Sets currentBatch, isProcessing, waiters,
\* the flush variables, flushSizes and outcome.
EnterProcessBatch(owner, batch, out) ==
    IF isProcessing
    THEN /\ waiters' = IF owner = "ff" THEN waiters + 1 ELSE waiters
         /\ currentBatch' = batch
         /\ outcome' = out
         /\ UNCHANGED <<isProcessing, flushVars, flushSizes>>
    ELSE IF batch = <<>>
    THEN /\ currentBatch' = <<>>
         /\ outcome' = out
         /\ UNCHANGED <<isProcessing, waiters, flushVars, flushSizes>>
    ELSE /\ isProcessing' = TRUE
         /\ batchToProcess' = batch
         /\ currentBatch' = <<>>
         /\ flushOwner' = owner
         /\ idx' = 1
         /\ retries' = 0
         /\ insertedCount' = 0
         /\ flushSizes' = Append(flushSizes, Len(batch))
         /\ outcome' = Taken(out, batch)
         /\ UNCHANGED waiters

\* a catch block that rethrows at once: the timer keeps running and the
\* client stays connected
EnterCatchRethrowsOnly(err) ==
    /\ thrown' = err
    /\ pc' = "catchDisconnect"
    /\ UNCHANGED <<keepAliveInterval, processingActive, disconnects>>

\* processStream, catch block up to its await: stopKeepAlive,
\* processingActive = false, then $disconnect
EnterCatch(err) ==
    /\ keepAliveInterval' = FALSE
    /\ processingActive' = FALSE
    /\ thrown' = err
    /\ disconnects' = disconnects + 1
    /\ pc' = "catchDisconnect"

\* a transformer that drops a bad row without recording it
RecordRowErrorDropped(n, err) ==
    UNCHANGED <<errorRows, pc, thrown, processingActive, keepAliveInterval>>

\* a transformer that records its ErrorRows without the row number
RecordRowErrorUnnumbered(n, err) ==
    /\ errorRows' = Append(errorRows, [row |-> -1, error |-> err])
    /\ UNCHANGED <<pc, thrown, processingActive, keepAliveInterval>>

\* a transformer that numbers the rows from 0
RecordRowErrorZeroBased(n, err) ==
    /\ errorRows' = Append(errorRows, [row |-> n - 1, error |-> err])
    /\ UNCHANGED <<pc, thrown, processingActive, keepAliveInterval>>

\* createTransformer: this.errorRows.push({row, error}); callback() -- the
\* row is dropped and the transformer goes on to the next row
RecordRowError(n, err) ==
    /\ errorRows' = Append(errorRows, [row |-> n, error |-> err])
    /\ UNCHANGED <<pc, thrown, processingActive, keepAliveInterval>>

\* a transformer that starts the batch anew with each record that arrives
\* during a flush
AppendToBatchOverwrites(record, out) ==
    LET batch == IF isProcessing THEN <<record>> ELSE Append(currentBatch, record)
    IN  IF Len(batch) >= batchSize
        THEN EnterProcessBatch("ff", batch, out)
        ELSE /\ currentBatch' = batch
             /\ outcome' = out
             /\ UNCHANGED <<isProcessing, waiters, flushVars, flushSizes>>

\* a transformer that puts the new record in front of the batch
AppendToBatchInFront(record, out) ==
    LET batch == <<record>> \o currentBatch
    IN  IF Len(batch) >= batchSize
        THEN EnterProcessBatch("ff", batch, out)
        ELSE /\ currentBatch' = batch
             /\ outcome' = out
             /\ UNCHANGED <<isProcessing, waiters, flushVars, flushSizes>>

\* createTransformer: this.currentBatch.push(transformed) and, once the
\* batch has batchSize records, a processBatch call that is not awaited
AppendToBatch(record, out) ==
    LET batch == Append(currentBatch, record)
    IN  IF Len(batch) >= batchSize
        THEN EnterProcessBatch("ff", batch, out)
        ELSE /\ currentBatch' = batch
             /\ outcome' = out
             /\ UNCHANGED <<isProcessing, waiters, flushVars, flushSizes>>

\* createTransformer, transform callback: one data row.  `throws` is the
\* message of the exception transformRow raises on this row, "" if none.
TransformCallback(row, throws) ==
    /\ pc = "pipeline"
    /\ rowNumber' = rowNumber + 1
    /\ lacking' = IF row.id \in {Undefined, ""} \/ row.title \in {Undefined, ""}
                  THEN lacking \cup {rowNumber + 1} ELSE lacking
    /\ IF RowRejected(row)
       THEN /\ RecordRowError(rowNumber + 1, MissingFieldError)
            /\ outcome' = [outcome EXCEPT ![rowNumber + 1] = "rejected"]
            /\ UNCHANGED <<currentBatch, isProcessing, waiters, flushVars, flushSizes>>
       ELSE IF throws # ""
       THEN /\ RecordRowError(rowNumber + 1, <<throws>>)
            /\ outcome' = [outcome EXCEPT ![rowNumber + 1] = "threw"]
            /\ UNCHANGED <<currentBatch, isProcessing, waiters, flushVars, flushSizes>>
       ELSE /\ AppendToBatch(transformRow(row, rowNumber + 1),
                             [outcome EXCEPT ![rowNumber + 1] = "batched"])
            /\ UNCHANGED <<errorRows, pc, thrown, processingActive,
                           keepAliveInterval>>
    /\ UNCHANGED <<batchSize, restVars, committedIds, disconnects, processedCount, result, pipelineError, lastUpsert>>

\* a transformer that holds a row back while a flush is in flight
TransformRowStepBlocked(row, throws) ==
    /\ rowNumber < MaxRows
    /\ ~isProcessing
    /\ TransformCallback(row, throws)

\* the decoder delivers one of the MaxRows data rows of a file
TransformRowStep(row, throws) ==
    /\ rowNumber < MaxRows
    /\ TransformCallback(row, throws)

\* the decoder delivers one of the MaxErrorRows data rows of a long file:
\* after the first ValidPrefix rows every row lacks its id or its title
LongFileRowStep(row, throws) ==
    /\ rowNumber < MaxErrorRows
    /\ rowNumber >= ValidPrefix => RowRejected(row)
    /\ TransformCallback(row, throws)

\* a processStream that goes straight to waitForProcessing
AfterPipelineSkipsDrain ==
    /\ pc' = "waitForProcessing"
    /\ UNCHANGED <<currentBatch, isProcessing, waiters, flushVars,
                   flushSizes, outcome>>

\* processStream after the pipeline has settled without a rethrow:
\* if (this.currentBatch.length > 0) await this.processBatch(); then
\* waitForProcessing
AfterPipeline ==
    IF currentBatch # <<>>
    THEN /\ EnterProcessBatch("main", currentBatch, outcome)
         /\ pc' = IF isProcessing THEN "finalWait" ELSE "finalFlush"
    ELSE /\ pc' = "waitForProcessing"
         /\ UNCHANGED <<currentBatch, isProcessing, waiters, flushVars,
                        flushSizes, outcome>>

\* the input ends: the pipeline resolves
StreamEnd ==
    /\ pc = "pipeline"
    /\ AfterPipeline
    /\ UNCHANGED <<batchSize, restVars, committedIds, disconnects, rowNumber, processedCount, errorRows, processingActive,
                   keepAliveInterval, result, pipelineError, thrown, lacking, lastUpsert>>

\* processStream, catch (pipelineError): continue when the stream closed
\* prematurely and processedCount > 0, rethrow otherwise
PipelineErrorRecoverable(code) ==
    code = "ERR_STREAM_PREMATURE_CLOSE" /\ processedCount > 0

\* the input closes early or fails: the pipeline rejects with `code`
StreamError(code) ==
    /\ pc = "pipeline"
    /\ pipelineError' = code
    /\ IF PipelineErrorRecoverable(code)
       THEN /\ AfterPipeline
            /\ UNCHANGED <<processingActive, keepAliveInterval, thrown, disconnects>>
       ELSE /\ EnterCatch(code)
            /\ UNCHANGED <<currentBatch, isProcessing, waiters, flushVars,
                           flushSizes, outcome>>
    /\ UNCHANGED <<batchSize, restVars, committedIds, rowNumber, processedCount, errorRows, result, lacking, lastUpsert>>

\* a flush that counts its whole batch as processed
NextRecordCountsBatch(inserted) ==
    IF idx < Len(batchToProcess)
    THEN /\ idx' = idx + 1
         /\ retries' = 0
         /\ insertedCount' = inserted
         /\ UNCHANGED <<flushOwner, batchToProcess, isProcessing,
                        processedCount, pc>>
    ELSE /\ processedCount' = processedCount + Len(batchToProcess)
         /\ isProcessing' = FALSE
         /\ flushOwner' = "none"
         /\ batchToProcess' = <<>>
         /\ idx' = 0
         /\ retries' = 0
         /\ insertedCount' = 0
         /\ pc' = IF flushOwner = "main" THEN "waitForProcessing" ELSE pc

\* a flush that ends without its finally block: the guard stays set
NextRecordKeepsGuard(inserted) ==
    IF idx < Len(batchToProcess)
    THEN /\ idx' = idx + 1
         /\ retries' = 0
         /\ insertedCount' = inserted
         /\ UNCHANGED <<flushOwner, batchToProcess, isProcessing,
                        processedCount, pc>>
    ELSE /\ processedCount' = processedCount + inserted
         /\ isProcessing' = TRUE
         /\ flushOwner' = "none"
         /\ batchToProcess' = <<>>
         /\ idx' = 0
         /\ retries' = 0
         /\ insertedCount' = 0
         /\ pc' = IF flushOwner = "main" THEN "waitForProcessing" ELSE pc

\* processBatch after the record at idx is done with `inserted` records
\* upserted so far: the next record, or the end of the flush
\* (processedCount += insertedCount; finally isProcessing = false).
\* Sets idx, retries, insertedCount, flushOwner, batchToProcess,
\* isProcessing, processedCount and pc.
NextRecord(inserted) ==
    IF idx < Len(batchToProcess)
    THEN /\ idx' = idx + 1
         /\ retries' = 0
         /\ insertedCount' = inserted
         /\ UNCHANGED <<flushOwner, batchToProcess, isProcessing,
                        processedCount, pc>>
    ELSE /\ processedCount' = processedCount + inserted
         /\ isProcessing' = FALSE
         /\ flushOwner' = "none"
         /\ batchToProcess' = <<>>
         /\ idx' = 0
         /\ retries' = 0
         /\ insertedCount' = 0
         /\ pc' = IF flushOwner = "main" THEN "waitForProcessing" ELSE pc

\* a permanent failure that ends the flush as the finally block does,
\* skipping the records left in the batch
AbortAfterFailure(inserted) ==
    /\ isProcessing' = FALSE
    /\ flushOwner' = "none"
    /\ batchToProcess' = <<>>
    /\ idx' = 0
    /\ retries' = 0
    /\ insertedCount' = 0
    /\ processedCount' = processedCount + inserted
    /\ pc' = IF flushOwner = "main" THEN "waitForProcessing" ELSE pc

\* processBatch: after the ErrorRow of a record that has exhausted its
\* retries the while loop ends and the for loop goes on to the next record
ContinueAfterFailure(inserted) == NextRecord(inserted)

\* history: one more upsert call, for `item`, ending with `error`
Upserted(item, error) ==
    [row |-> item.row,
     n |-> IF lastUpsert.row = item.row THEN lastUpsert.n + 1 ELSE 1,
     error |-> error]

\* a retry loop that is off by one
RetriesExhaustedLate(r) == r > MAX_RETRIES

\* processBatch: if (retries >= MAX_RETRIES), and the loop condition
\* retries < MAX_RETRIES
RetriesExhausted(r) == r >= MAX_RETRIES

\* processBatch: an upsert of the record at idx resolves; the id of the
\* record joins the history committedIds when `recorded`
UpsertResolves(recorded) ==
    /\ flushOwner # "none"
    /\ LET item == batchToProcess[idx]
       IN  /\ lastUpsert' = Upserted(item, "")
           /\ outcome' = [outcome EXCEPT ![item.row] = "committed"]
           /\ committedIds' = IF recorded THEN committedIds \cup {item.id}
                                           ELSE committedIds
    /\ NextRecord(insertedCount + 1)
    /\ UNCHANGED <<batchSize, restVars, disconnects, rowNumber, currentBatch, errorRows, processingActive,
                   keepAliveInterval, waiters, result, pipelineError, thrown, lacking, flushSizes>>

UpsertOk == UpsertResolves(FALSE)
UpsertOkRecorded == UpsertResolves(TRUE)

\* processBatch: an upsert of the record at idx rejects
UpsertFail ==
    /\ flushOwner # "none"
    /\ LET item == batchToProcess[idx]
           msg == UpsertErrors[Min(retries + 1, Len(UpsertErrors))]
       IN  /\ lastUpsert' = Upserted(item, msg)
           /\ IF RetriesExhausted(retries + 1)
              THEN /\ errorRows' = Append(errorRows,
                               [row |-> -1, error |-> RecordError(item.id, msg)])
                   /\ outcome' = [outcome EXCEPT ![item.row] = "failed"]
                   /\ ContinueAfterFailure(insertedCount)
              ELSE /\ retries' = retries + 1
                   /\ UNCHANGED <<errorRows, outcome, idx, insertedCount,
                                  flushOwner, batchToProcess, isProcessing,
                                  processedCount, pc>>
    /\ UNCHANGED <<batchSize, restVars, committedIds, disconnects, rowNumber, currentBatch, processingActive,
                   keepAliveInterval, waiters, result, pipelineError, thrown, lacking, flushSizes>>

\* processBatch: a fire-and-forget call finds the guard free after a poll
WaiterWakes ==
    /\ waiters > 0
    /\ ~isProcessing
    /\ waiters' = waiters - 1
    /\ IF currentBatch = <<>>
       THEN UNCHANGED <<currentBatch, isProcessing, flushVars, flushSizes, outcome>>
       ELSE /\ isProcessing' = TRUE
            /\ batchToProcess' = currentBatch
            /\ currentBatch' = <<>>
            /\ flushOwner' = "ff"
            /\ idx' = 1
            /\ retries' = 0
            /\ insertedCount' = 0
            /\ flushSizes' = Append(flushSizes, Len(currentBatch))
            /\ outcome' = Taken(outcome, currentBatch)
    /\ UNCHANGED <<batchSize, restVars, committedIds, disconnects, pc, rowNumber, processedCount, errorRows, processingActive,
                   keepAliveInterval, result, pipelineError, thrown, lacking, lastUpsert>>

\* processBatch: the call awaited by processStream finds the guard free
MainWakes ==
    /\ pc = "finalWait"
    /\ ~isProcessing
    /\ EnterProcessBatch("main", currentBatch, outcome)
    /\ pc' = IF currentBatch = <<>> THEN "waitForProcessing" ELSE "finalFlush"
    /\ UNCHANGED <<batchSize, restVars, committedIds, disconnects, rowNumber, processedCount, errorRows, processingActive,
                   keepAliveInterval, result, pipelineError, thrown, lacking, lastUpsert>>

\* a drain that watches the batch only, not the flush in flight
MustWaitBatchOnly == Len(currentBatch) > 0

\* waitForProcessing: while (this.isProcessing || this.currentBatch.length > 0)
MustWait == isProcessing \/ Len(currentBatch) > 0

\* waitForProcessing leaves its loop; processStream builds the summary,
\* stops the keep-alive and awaits $disconnect
WaitForProcessingDone ==
    /\ pc = "waitForProcessing"
    /\ ~MustWait
    /\ result' = <<Summary>>
    /\ keepAliveInterval' = FALSE
    /\ processingActive' = FALSE
    /\ disconnects' = disconnects + 1
    /\ pc' = "disconnect"
    /\ UNCHANGED <<batchSize, restVars, committedIds, rowNumber, currentBatch, isProcessing, processedCount,
                   errorRows, waiters, flushVars, pipelineError, thrown,
                   histVars>>

\* processStream: await this.prisma.$disconnect() resolves; return result
DisconnectOk ==
    /\ pc = "disconnect"
    /\ pc' = "returned"
    /\ UNCHANGED <<batchSize, restVars, committedIds, disconnects, rowNumber, currentBatch, isProcessing, processedCount,
                   errorRows, processingActive, keepAliveInterval, waiters,
                   flushVars, result, pipelineError, thrown, histVars>>

\* processStream: await this.prisma.$disconnect() rejects inside the try
DisconnectFail ==
    /\ pc = "disconnect"
    /\ EnterCatch("disconnect failed")
    /\ UNCHANGED <<batchSize, restVars, committedIds, rowNumber, currentBatch, isProcessing, processedCount,
                   errorRows, waiters, flushVars, result, pipelineError,
                   histVars>>

\* processStream, catch block: $disconnect settles either way; throw error
CatchThrow ==
    /\ pc = "catchDisconnect"
    /\ pc' = "thrown"
    /\ UNCHANGED <<batchSize, restVars, committedIds, disconnects, rowNumber, currentBatch, isProcessing, processedCount,
                   errorRows, processingActive, keepAliveInterval, waiters,
                   flushVars, result, pipelineError, thrown, histVars>>

Next ==
    \/ \E id \in RawIds, title \in RawTitles, throws \in TransformErrors \cup {""} :
          TransformRowStep([id |-> id, title |-> title], throws)
    \/ StreamEnd
    \/ \E code \in StreamErrorCodes : StreamError(code)
    \/ UpsertOk
    \/ UpsertFail
    \/ WaiterWakes
    \/ MainWakes
    \/ WaitForProcessingDone
    \/ DisconnectOk
    \/ DisconnectFail
    \/ CatchThrow

Spec == Init /\ [][Next]_vars

\* one processStream run over a long file
NextLongFile ==
    \/ \E id \in RawIds, title \in RawTitles, throws \in TransformErrors \cup {""} :
          LongFileRowStep([id |-> id, title |-> title], throws)
    \/ StreamEnd
    \/ \E code \in StreamErrorCodes : StreamError(code)
    \/ UpsertOk
    \/ UpsertFail
    \/ WaiterWakes
    \/ MainWakes
    \/ WaitForProcessingDone
    \/ DisconnectOk
    \/ DisconnectFail
    \/ CatchThrow

\* one processStream run with the ids of the committed records recorded
NextRecorded ==
    \/ \E id \in RawIds, title \in RawTitles, throws \in TransformErrors \cup {""} :
          TransformRowStep([id |-> id, title |-> title], throws)
    \/ StreamEnd
    \/ \E code \in StreamErrorCodes : StreamError(code)
    \/ UpsertOkRecorded
    \/ UpsertFail
    \/ WaiterWakes
    \/ MainWakes
    \/ WaitForProcessingDone
    \/ DisconnectOk
    \/ DisconnectFail
    \/ CatchThrow

SpecRecorded == Init /\ [][NextRecorded]_vars

InitLongFile ==
    /\ NoOther
    /\ NoImport
    /\ NoCall
    /\ batchSize \in 1..MaxBatchSize
    /\ FreshProcessor(LongFileRowNumbers)

SpecLongFile == InitLongFile /\ [][NextLongFile]_vars

\* the decoder delivers one of the MaxFairRows data rows of a short file
ShortFileRowStep(row, throws) ==
    /\ rowNumber < MaxFairRows
    /\ TransformCallback(row, throws)

\* one processStream run over a short file
NextShortFile ==
    \/ \E id \in RawIds, title \in RawTitles, throws \in TransformErrors \cup {""} :
          ShortFileRowStep([id |-> id, title |-> title], throws)
    \/ StreamEnd
    \/ \E code \in StreamErrorCodes : StreamError(code)
    \/ UpsertOk
    \/ UpsertFail
    \/ WaiterWakes
    \/ MainWakes
    \/ WaitForProcessingDone
    \/ DisconnectOk
    \/ DisconnectFail
    \/ CatchThrow

\* The input is finite: after its last row the stream ends, unless it has
\* failed.  Every storage call settles: an upsert resolves or rejects, and
\* so does $disconnect.  Every timer fires: a processBatch call polling the
\* guard and waitForProcessing test their condition again every 100 ms.
Fairness ==
    /\ WF_vars(StreamEnd)
    /\ WF_vars(UpsertOk \/ UpsertFail)
    /\ WF_vars(WaiterWakes)
    /\ WF_vars(MainWakes)
    /\ WF_vars(WaitForProcessingDone)
    /\ WF_vars(DisconnectOk \/ DisconnectFail)
    /\ WF_vars(CatchThrow)

SpecFair == Init /\ [][NextShortFile]_vars /\ Fairness

\* ------------------------------------------------------------ keep-alive
\* a timer that cannot fire while a flush is in flight
KeepAliveTickBetweenFlushes ==
    /\ keepAliveInterval
    /\ ~isProcessing
    /\ ticks < MaxTicks
    /\ ticks' = ticks + 1
    /\ IF ~processingActive
       THEN /\ keepAliveInterval' = FALSE
            /\ UNCHANGED pings
       ELSE /\ pings' = pings + 1
            /\ UNCHANGED keepAliveInterval
    /\ UNCHANGED <<batchSize, pc, rowNumber, currentBatch, isProcessing,
                   processedCount, errorRows, processingActive, waiters,
                   flushVars, result, pipelineError, thrown, histVars,
                   disconnects, committedIds, reconnects, prismaClients,
                   failedPings, reconnectAttempts, importVars, callVars,
                   otherVars>>

\* startKeepAlive: the timer fires.  The callback stops the timer when the
\* run is no longer active and otherwise issues the ping and awaits it; a
\* callback does not wait for the one before it.
KeepAliveTick ==
    /\ keepAliveInterval
    /\ ticks < MaxTicks
    /\ ticks' = ticks + 1
    /\ IF ~processingActive
       THEN /\ keepAliveInterval' = FALSE
            /\ UNCHANGED pings
       ELSE /\ pings' = pings + 1
            /\ UNCHANGED keepAliveInterval
    /\ UNCHANGED <<batchSize, pc, rowNumber, currentBatch, isProcessing,
                   processedCount, errorRows, processingActive, waiters,
                   flushVars, result, pipelineError, thrown, histVars,
                   disconnects, committedIds, reconnects, prismaClients,
                   failedPings, reconnectAttempts, importVars, callVars,
                   otherVars>>

\* the ping resolves: the callback logs and ends
KeepAlivePingOk ==
    /\ pings > 0
    /\ pings' = pings - 1
    /\ UNCHANGED <<runVars, importVars, callVars, otherVars,
                   reconnects, prismaClients,
                   ticks, failedPings, reconnectAttempts>>

\* a callback whose ping failure escapes into processStream
KeepAlivePingFailUncaught ==
    /\ pings > 0
    /\ pings' = pings - 1
    /\ failedPings' = failedPings + 1
    /\ thrown' = "keep-alive failed"
    /\ pc' = "thrown"
    /\ UNCHANGED <<batchSize, rowNumber, currentBatch, isProcessing,
                   processedCount, errorRows, processingActive,
                   keepAliveInterval, waiters, flushVars, result,
                   pipelineError, histVars, disconnects, committedIds,
                   reconnects, prismaClients, ticks, reconnectAttempts,
                   importVars, callVars,
                   otherVars>>

\* the ping rejects: the callback catches the error and awaits
\* this.prisma.$disconnect()
KeepAlivePingFail ==
    /\ pings > 0
    /\ pings' = pings - 1
    /\ failedPings' = failedPings + 1
    /\ reconnects' = reconnects + 1
    /\ reconnectAttempts' = reconnectAttempts + 1
    /\ UNCHANGED <<runVars, importVars, callVars, otherVars,
                   prismaClients, ticks>>

\* $disconnect resolves: this.prisma = new PrismaClient()
KeepAliveReconnectOk ==
    /\ reconnects > 0
    /\ reconnects' = reconnects - 1
    /\ prismaClients' = prismaClients + 1
    /\ UNCHANGED <<runVars, importVars, callVars, otherVars,
                   pings, ticks, failedPings,
                   reconnectAttempts>>

\* $disconnect rejects: the callback logs the error and ends
KeepAliveReconnectFail ==
    /\ reconnects > 0
    /\ reconnects' = reconnects - 1
    /\ UNCHANGED <<runVars, importVars, callVars, otherVars,
                   pings, prismaClients, ticks,
                   failedPings, reconnectAttempts>>

\* the decoder delivers one of the MaxKeepAliveRows data rows of a file
KeepAliveRowStep(row, throws) ==
    /\ rowNumber < MaxKeepAliveRows
    /\ TransformCallback(row, throws)

\* one processStream run with its keep-alive timer
NextKeepAlive ==
    \/ \E id \in RawIds, title \in RawTitles, throws \in TransformErrors \cup {""} :
          KeepAliveRowStep([id |-> id, title |-> title], throws)
    \/ StreamEnd
    \/ \E code \in StreamErrorCodes : StreamError(code)
    \/ UpsertOk
    \/ UpsertFail
    \/ WaiterWakes
    \/ MainWakes
    \/ WaitForProcessingDone
    \/ DisconnectOk
    \/ DisconnectFail
    \/ CatchThrow
    \/ KeepAliveTick
    \/ KeepAlivePingOk
    \/ KeepAlivePingFail
    \/ KeepAliveReconnectOk
    \/ KeepAliveReconnectFail

SpecKeepAlive == Init /\ [][NextKeepAlive]_vars

\* ------------------------------------------------ validateCsvHeaders
\* validator.ts (src/unnamed/part_001): const REQUIRED_HEADERS
REQUIRED_HEADERS ==
    <<"id", "title", "vote_average", "vote_count", "status", "release_date",
      "revenue", "runtime", "budget", "imdb_id", "original_language",
      "original_title", "overview", "popularity", "tagline", "genres",
      "production_companies", "production_countries", "spoken_languages",
      "cast", "director", "director_of_photography", "writers", "producers",
      "music_composer", "imdb_rating", "imdb_votes", "poster_path">>

Range(seq) == {seq[i] : i \in 1..Len(seq)}
Reverse(seq) == [i \in 1..Len(seq) |-> seq[Len(seq) + 1 - i]]
Without(seq, names) ==
    LET Keep(h) == h \notin names IN SelectSeq(seq, Keep)

\* first rows of the files tried: the required columns in the code's order
\* and reversed, with some of Droppable left out, with a column that is
\* not required, with a byte order mark before the first name, and the
\* three-column header
Droppable == {"id", "title", "tagline", "poster_path"}
HeaderRows ==
    UNION {{Without(REQUIRED_HEADERS, D),
            Without(Reverse(REQUIRED_HEADERS), D),
            Without(REQUIRED_HEADERS, D) \o <<"homepage">>} : D \in SUBSET Droppable}
    \cup {<<"id", "title", "vote_average">>,
          <<"<BOM>id">> \o Tail(REQUIRED_HEADERS)}

\* What the stream given to validateCsvHeaders holds: the chunks it
\* delivers before it ends, the records csv-parse (trim, skip_empty_lines)
\* reads from them -- the first row, then dataRecords more -- and the
\* record at which csv-parse raises an error (0: none, 1: the first row).
MaxDataRecords == 2
MaxChunks == 2
CsvStreams ==
    {[chunks |-> 0, header |-> <<>>, dataRecords |-> 0, errorAt |-> 0]}
    \cup {[chunks |-> c, header |-> <<>>, dataRecords |-> 0, errorAt |-> e] :
             c \in 1..MaxChunks, e \in 0..1}
    \cup {s \in [chunks : 1..MaxChunks, header : HeaderRows,
                 dataRecords : 0..MaxDataRecords, errorAt : 0..MaxDataRecords + 1] :
             s.errorAt <= s.dataRecords + 1}

\* results of validateCsvHeaders
Null == [kind |-> "null"]
Message(text) == [kind |-> "message", text |-> text]
Rejected(error) == [kind |-> "rejected", error |-> error]

EmptyFileMessage == <<"CSV file is empty">>
EmptyOrMalformedMessage == <<"CSV file is empty or malformed">>
MissingColumnsPrefix == "missing required columns: "

\* a check of the chunks that never finds them empty
NoChunksIgnored(in) == FALSE

\* validateCsvHeaders: if (chunks.length === 0)
NoChunks(in) == in.chunks = 0

\* a filter that reports the first missing column only
MissingHeadersFirstOnly(headers) ==
    LET Missing(h) == h \notin Range(headers)
        all == SelectSeq(REQUIRED_HEADERS, Missing)
    IN  IF all = <<>> THEN <<>> ELSE <<all[1]>>

\* validateCsvHeaders: REQUIRED_HEADERS.filter(header => !headers.includes(header))
MissingHeaders(headers) ==
    LET Missing(h) == h \notin Range(headers)
    IN  SelectSeq(REQUIRED_HEADERS, Missing)

\* validateCsvHeaders, parser.on('end'): the verdict on the first row read
HeaderVerdict(dataRead, headers) ==
    IF ~dataRead \/ Len(headers) = 0
    THEN Message(EmptyOrMalformedMessage)
    ELSE IF Len(MissingHeaders(headers)) > 0
    THEN Message(<<MissingColumnsPrefix>> \o MissingHeaders(headers))
    ELSE Null

\* validateCsvHeaders: what the promise settles with once the stream has
\* ended.  The 'readable' handler keeps the first record; an 'error' of
\* the parser rejects, whichever record it is raised at, and then no 'end'
\* follows.
validateCsvHeaders(in) ==
    IF NoChunks(in)
    THEN Message(EmptyFileMessage)
    ELSE IF in.errorAt # 0
    THEN Rejected("ValidationError")
    ELSE HeaderVerdict(in.header # <<>>, in.header)

\* a caller awaits validateCsvHeaders(stream) and the stream ends
ValidateCsvHeadersCall ==
    /\ arg \in CsvStreams
    /\ ret = <<>>
    /\ ret' = <<validateCsvHeaders(arg)>>
    /\ UNCHANGED <<processorVars, importVars, otherVars, arg>>

InitValidate ==
    /\ NoOther
    /\ NoProcessor
    /\ NoImport
    /\ arg \in CsvStreams
    /\ ret = <<>>

NextValidate == ValidateCsvHeadersCall

SpecValidate == InitValidate /\ [][NextValidate]_vars

\* validateCsvHeaders with the stream it listens to.  It registers a
\* 'data' and an 'end' listener on the stream and awaits a promise that
\* only the 'end' listener resolves; everything after that await is
\* validateCsvHeaders(arg) above.

\* the stream emits 'data': chunks.push(Buffer.from(chunk))
HeaderStreamData ==
    /\ streamState = "open"
    /\ ret = <<>>
    /\ chunksLength < arg.chunks
    /\ chunksLength' = chunksLength + 1
    /\ UNCHANGED <<processorVars, importVars, csvVars, callVars, streamState>>

\* the stream emits 'end' after its last chunk: the await resolves and
\* the function goes on to its result
HeaderStreamEnd ==
    /\ streamState = "open"
    /\ ret = <<>>
    /\ chunksLength = arg.chunks
    /\ streamState' = "ended"
    /\ ret' = <<validateCsvHeaders(arg)>>
    /\ UNCHANGED <<processorVars, importVars, csvVars, arg, chunksLength>>

\* the stream emits 'error', or is destroyed and emits 'close', before
\* its end: no 'end' follows, and validateCsvHeaders has no listener for
\* either event
HeaderStreamFails(event) ==
    /\ streamState = "open"
    /\ ret = <<>>
    /\ streamState' = event
    /\ UNCHANGED <<processorVars, importVars, csvVars, callVars, chunksLength>>

HeaderStreamError == HeaderStreamFails("errored")
HeaderStreamClose == HeaderStreamFails("closed")

NextHeaderStream ==
    \/ HeaderStreamData
    \/ HeaderStreamEnd
    \/ HeaderStreamError
    \/ HeaderStreamClose

\* a stream that is open delivers its next chunk, ends or fails
HeaderStreamFairness ==
    /\ WF_vars(HeaderStreamData)
    /\ WF_vars(HeaderStreamEnd)

SpecHeaderStream ==
    InitValidate /\ [][NextHeaderStream]_vars /\ HeaderStreamFairness

\* --------------------------------------------- parseProductionCompanies
\* parser.ts (src/unnamed/part_001).  A JavaScript string is a sequence of
\* one-character strings; a JavaScript value is a record tagged with its
\* typeof, an object holding a function from its keys to its values.
MaxLen == 3           \* length of the strings tried over Alphabet

JUndefined == [t |-> "undefined"]
JNull == [t |-> "null"]
JStr(s) == [t |-> "string", s |-> s]
JNum(n) == [t |-> "number", n |-> n]
JArr(xs) == [t |-> "array", xs |-> xs]
JObj(o) == [t |-> "object", o |-> o]
\* an exception travelling up to the nearest catch
Throw == [t |-> "<throw>"]

Digits == <<"0", "1", "2", "3", "4", "5", "6", "7", "8", "9">>
Letters == {"A", "B", "o", "n", "d", "c", "s", "a", "m", "e", "i", "U", "k", "w"}
Ws == {" "}
\* the regular expression class [\w\s&.-]
SimpleCompanyChars == Letters \cup Range(Digits) \cup {"_"} \cup Ws \cup {"&", ".", "-"}

K_name == <<"n", "a", "m", "e">>
K_id == <<"i", "d">>
Unknown == <<"U", "n", "k", "n", "o", "w", "n">>

\* !v
JsFalsy(v) ==
    \/ v.t \in {"undefined", "null"}
    \/ v.t = "string" /\ v.s = <<>>
    \/ v.t = "number" /\ v.n = 0

\* a || b
JsOr(a, b) == IF JsFalsy(a) THEN b ELSE a

\* o[k] of an object, an array or a number: undefined when there is none
Get(c, k) == IF c.t = "object" /\ k \in DOMAIN c.o THEN c.o[k] ELSE JUndefined

RECURSIVE SkipWs(_)
SkipWs(s) == IF s # <<>> /\ s[1] \in Ws THEN SkipWs(Tail(s)) ELSE s
RECURSIVE TrimEnd(_)
TrimEnd(s) ==
    IF s # <<>> /\ s[Len(s)] \in Ws THEN TrimEnd(SubSeq(s, 1, Len(s) - 1)) ELSE s
\* String.prototype.trim
Trim(s) == TrimEnd(SkipWs(s))

StartsWith(s, c) == s # <<>> /\ s[1] = c
EndsWith(s, c) == s # <<>> /\ s[Len(s)] = c
Includes(s, c) == c \in Range(s)

\* s.split(c) for a one-character separator, `cur` being the piece begun
RECURSIVE SplitChar(_, _, _)
SplitChar(s, c, cur) ==
    IF s = <<>> THEN <<cur>>
    ELSE IF s[1] = c THEN <<cur>> \o SplitChar(Tail(s), c, <<>>)
    ELSE SplitChar(Tail(s), c, Append(cur, s[1]))

\* s.split(/,\s*/)
RECURSIVE SplitCommaWs(_, _)
SplitCommaWs(s, cur) ==
    IF s = <<>> THEN <<cur>>
    ELSE IF s[1] = "," THEN <<cur>> \o SplitCommaWs(SkipWs(Tail(s)), <<>>)
    ELSE SplitCommaWs(Tail(s), Append(cur, s[1]))

\* .filter(Boolean) on a list of strings
FilterBoolean(pieces) ==
    LET NonEmpty(x) == x # <<>> IN SelectSeq(pieces, NonEmpty)

\* .map(name => ({ name: name.trim() }))
TrimmedNames(pieces) ==
    [i \in 1..Len(pieces) |-> JObj(K_name :> JStr(Trim(pieces[i])))]

\* JSON.parse, for texts without escapes, fractions and literals other
\* than null: [ok, val, rest] of the value at the head of s
ParseFail == [ok |-> FALSE, val |-> JNull, rest |-> <<>>]
ParseOk(val, rest) == [ok |-> TRUE, val |-> val, rest |-> rest]

RECURSIVE ParseChars(_, _)
ParseChars(s, acc) ==
    IF s = <<>> THEN ParseFail
    ELSE IF s[1] = "\"" THEN ParseOk(acc, Tail(s))
    ELSE ParseChars(Tail(s), Append(acc, s[1]))

DigitValue(c) == CHOOSE n \in 0..9 : Digits[n + 1] = c
RECURSIVE ParseDigits(_, _)
ParseDigits(s, n) ==
    IF s # <<>> /\ s[1] \in Range(Digits)
    THEN ParseDigits(Tail(s), 10 * n + DigitValue(s[1]))
    ELSE ParseOk(JNum(n), s)

RECURSIVE ParseValue(_), ParseElements(_, _), ParseMembers(_, _)
ParseValue(s) ==
    IF s = <<>> THEN ParseFail
    ELSE IF s[1] = "\"" THEN
        LET r == ParseChars(Tail(s), <<>>)
        IN  IF r.ok THEN ParseOk(JStr(r.val), r.rest) ELSE ParseFail
    ELSE IF s[1] \in Range(Digits) THEN
        IF s[1] = "0" /\ Len(s) > 1 /\ s[2] \in Range(Digits)
        THEN ParseFail
        ELSE ParseDigits(s, 0)
    ELSE IF Len(s) >= 4 /\ SubSeq(s, 1, 4) = <<"n", "u", "l", "l">> THEN
        ParseOk(JNull, SubSeq(s, 5, Len(s)))
    ELSE IF s[1] = "[" THEN
        LET t == SkipWs(Tail(s))
        IN  IF StartsWith(t, "]") THEN ParseOk(JArr(<<>>), Tail(t))
            ELSE ParseElements(t, <<>>)
    ELSE IF s[1] = "{" THEN
        LET t == SkipWs(Tail(s))
        IN  IF StartsWith(t, "}") THEN ParseOk(JObj(<<>>), Tail(t))
            ELSE ParseMembers(t, <<>>)
    ELSE ParseFail

ParseElements(s, acc) ==
    LET r == ParseValue(s)
        u == SkipWs(r.rest)
    IN  IF ~r.ok \/ u = <<>> THEN ParseFail
        ELSE IF u[1] = "," THEN ParseElements(SkipWs(Tail(u)), Append(acc, r.val))
        ELSE IF u[1] = "]" THEN ParseOk(JArr(Append(acc, r.val)), Tail(u))
        ELSE ParseFail

ParseMembers(s, obj) ==
    IF ~StartsWith(s, "\"") THEN ParseFail
    ELSE LET k == ParseChars(Tail(s), <<>>)
             c == SkipWs(k.rest)
         IN  IF ~k.ok \/ ~StartsWith(c, ":") THEN ParseFail
             ELSE LET r == ParseValue(SkipWs(Tail(c)))
                      u == SkipWs(r.rest)
                      o == [x \in DOMAIN obj \cup {k.val} |->
                               IF x = k.val THEN r.val ELSE obj[x]]
                  IN  IF ~r.ok \/ u = <<>> THEN ParseFail
                      ELSE IF u[1] = "," THEN ParseMembers(SkipWs(Tail(u)), o)
                      ELSE IF u[1] = "}" THEN ParseOk(JObj(o), Tail(u))
                      ELSE ParseFail

\* JSON.parse(s): the value, or Throw for a SyntaxError
JsonParse(s) ==
    LET r == ParseValue(SkipWs(s))
    IN  IF r.ok /\ SkipWs(r.rest) = <<>> THEN r.val ELSE Throw

\* String(v)
RECURSIVE NumberDigits(_)
NumberDigits(n) ==
    IF n < 10 THEN <<Digits[n + 1]>>
    ELSE NumberDigits(n \div 10) \o <<Digits[(n % 10) + 1]>>
RECURSIVE JsString(_), JoinComma(_)
JsString(v) ==
    CASE v.t = "string" -> v.s
      [] v.t = "number" -> NumberDigits(v.n)
      [] v.t = "null" -> <<"n", "u", "l", "l">>
      [] v.t = "undefined" -> <<"u", "n", "d", "e", "f", "i", "n", "e", "d">>
      [] v.t = "array" -> JoinComma(v.xs)
      [] OTHER -> <<"[", "o", "b", "j", "e", "c", "t", " ", "O", "b", "j", "e", "c", "t", "]">>
JoinComma(xs) ==
    IF xs = <<>> THEN <<>>
    ELSE LET head == IF xs[1].t \in {"null", "undefined"} THEN <<>> ELSE JsString(xs[1])
         IN  IF Len(xs) = 1 THEN head ELSE head \o <<",">> \o JoinComma(Tail(xs))

\* a mapping that keeps the name only
CompanyOfNameOnly(c) ==
    IF c.t = "string" THEN JObj(K_name :> c)
    ELSE IF c.t \in {"null", "undefined"} THEN Throw
    ELSE JObj(K_name :> JsOr(Get(c, K_name), JStr(Unknown)))

\* parseProductionCompanies, the callback of both map calls:
\* typeof c === 'string' ? { name: c }
\*                       : { name: c.name || 'Unknown', id: c.id || null };
\* reading a property of null or undefined raises a TypeError
CompanyOf(c) ==
    IF c.t = "string" THEN JObj(K_name :> c)
    ELSE IF c.t \in {"null", "undefined"} THEN Throw
    ELSE JObj((K_name :> JsOr(Get(c, K_name), JStr(Unknown)))
              @@ (K_id :> JsOr(Get(c, K_id), JNull)))

\* xs.map(CompanyOf): the array, or Throw when the callback raises
MapCompanies(xs) ==
    IF \E i \in 1..Len(xs) : CompanyOf(xs[i]) = Throw
    THEN Throw
    ELSE JArr([i \in 1..Len(xs) |-> CompanyOf(xs[i])])

\* /^\[([\w\s&.-]+)\]$/ matches s, a string that starts with [ and ends with ]
SimpleCompanyMatch(s) ==
    /\ Len(s) >= 3
    /\ \A i \in 2..(Len(s) - 1) : s[i] \in SimpleCompanyChars

\* parseProductionCompanies, try block after the bracket branch: an object
\* or array input, then the pipe and the comma separated lists; calling
\* includes on a value that is no string raises a TypeError
AfterBrackets(input) ==
    IF input.t \in {"object", "array"}
    THEN IF input.t = "array"
         THEN MapCompanies(input.xs)
         ELSE JArr(<<JObj((K_name :> JsOr(Get(input, K_name), JStr(Unknown)))
                          @@ (K_id :> JsOr(Get(input, K_id), JNull)))>>)
    ELSE IF input.t # "string" THEN Throw
    ELSE IF Includes(input.s, "|")
    THEN JArr(TrimmedNames(SplitChar(input.s, "|", <<>>)))
    ELSE JArr(TrimmedNames(FilterBoolean(SplitCommaWs(input.s, <<>>))))

\* parseProductionCompanies, try block: the bracket branch with the simple
\* pattern and JSON.parse (whose errors, and those of its map, are caught
\* and logged), then the rest
TryBlock(input) ==
    IF input.t = "string" /\ StartsWith(input.s, "[") /\ EndsWith(input.s, "]")
    THEN IF SimpleCompanyMatch(input.s)
         THEN JArr(<<JObj(K_name :> JStr(Trim(SubSeq(input.s, 2, Len(input.s) - 1))))>>)
         ELSE LET parsed == JsonParse(input.s)
              IN  IF parsed # Throw /\ parsed.t = "array"
                     /\ MapCompanies(parsed.xs) # Throw
                  THEN MapCompanies(parsed.xs)
                  ELSE AfterBrackets(input)
    ELSE AfterBrackets(input)

\* a catch block that rethrows
CatchBlockRethrows(input) == Throw

\* parseProductionCompanies, catch block: the fallbacks, themselves in a
\* try whose catch returns [{ name: String(input) }]
CatchBlock(input) ==
    IF input.t # "string" THEN JArr(<<JObj(K_name :> JStr(JsString(input)))>>)
    ELSE IF StartsWith(input.s, "[") /\ EndsWith(input.s, "]")
    THEN JArr(<<JObj(K_name :> JStr(Trim(SubSeq(input.s, 2, Len(input.s) - 1))))>>)
    ELSE IF Includes(input.s, ",")
    THEN JArr(TrimmedNames(FilterBoolean(SplitCommaWs(input.s, <<>>))))
    ELSE IF Includes(input.s, "|")
    THEN JArr(TrimmedNames(SplitChar(input.s, "|", <<>>)))
    ELSE IF Includes(input.s, ";")
    THEN JArr(TrimmedNames(SplitChar(input.s, ";", <<>>)))
    ELSE JArr(<<JObj(K_name :> JStr(Trim(input.s)))>>)

\* parseProductionCompanies(input): the list returned, or Throw when the
\* call raises
parseProductionCompanies(input) ==
    IF JsFalsy(input) THEN JArr(<<>>)
    ELSE IF TryBlock(input) # Throw THEN TryBlock(input)
    ELSE CatchBlock(input)

\* the strings tried: every string over Alphabet of up to MaxLen
\* characters, and texts of the kinds the column holds
Alphabet == {"A", ",", " ", "|", "[", "]"}
RECURSIVE StringsUpTo(_)
StringsUpTo(n) ==
    IF n = 0 THEN {<<>>}
    ELSE StringsUpTo(n - 1)
         \cup {Append(s, c) : s \in {x \in StringsUpTo(n - 1) : Len(x) = n - 1},
                              c \in Alphabet}
Texts ==
    {<<"[", "{", "\"", "n", "a", "m", "e", "\"", ":", "\"", "A", "\"", "}", "]">>,
     <<"A", ",", " ", "B">>,
     <<"[", "B", "o", "o", "n", "d", "o", "c", "s", "]">>,
     <<"[", "\"", "A", "\"", ",", " ", "\"", "B", "\"", "]">>,
     <<"[", "{", "\"", "i", "d", "\"", ":", "5", "}", "]">>,
     <<"[", "{", "\"", "n", "a", "m", "e", "\"", ":", "\"", "A", "\"", ",",
       "\"", "i", "d", "\"", ":", "5", "}", "]">>,
     <<"[", "n", "u", "l", "l", "]">>,
     <<"[", "5", ",", "\"", "\"", "]">>,
     <<"[", "\"", "A", "]">>,
     <<"A", ";", "B">>,
     <<"A", " ", "&", " ", "B">>}
ParserInputs ==
    {JUndefined, JNull, JNum(0), JNum(5),
     JArr(<<JNull>>), JArr(<<JStr(<<"A">>), JObj(K_id :> JNum(5))>>),
     JObj(K_name :> JStr(<<"A">>))}
    \cup {JStr(s) : s \in StringsUpTo(MaxLen) \cup Texts}

\* a caller calls parseProductionCompanies(arg)
ParseProductionCompaniesCall ==
    /\ arg \in ParserInputs
    /\ ret = <<>>
    /\ ret' = <<parseProductionCompanies(arg)>>
    /\ UNCHANGED <<processorVars, importVars, otherVars, arg>>

\* a caller passes the list it got to parseProductionCompanies again
ParseProductionCompaniesAgain ==
    /\ arg \in ParserInputs
    /\ Len(ret) \in 1..2
    /\ ret[Len(ret)] # Throw
    /\ ret' = Append(ret, parseProductionCompanies(ret[Len(ret)]))
    /\ UNCHANGED <<processorVars, importVars, otherVars, arg>>

InitParse ==
    /\ NoOther
    /\ NoProcessor
    /\ NoImport
    /\ arg \in ParserInputs
    /\ ret = <<>>

NextParse ==
    \/ ParseProductionCompaniesCall
    \/ ParseProductionCompaniesAgain

SpecParse == InitParse /\ [][NextParse]_vars

\* ------------------------------------------------ parseCastNames, parseCast
\* parser.ts (src/unnamed/part_001), on the JavaScript values above.
MaxEntries == 2       \* entries of a cast text

UnknownActor == <<"U", "n", "k", "n", "o", "w", "n", " ", "A", "c", "t", "o", "r">>
\* the regular expression class [A-Z]
UpperAZ == {"A", "B", "C", "D", "E", "F", "G", "H", "I", "J", "K", "L", "M",
            "N", "O", "P", "Q", "R", "S", "T", "U", "V", "W", "X", "Y", "Z"}

\* s.includes(' as ')
RECURSIVE IncludesAs(_)
IncludesAs(s) ==
    /\ Len(s) >= 4
    /\ \/ SubSeq(s, 1, 4) = <<" ", "a", "s", " ">>
       \/ IncludesAs(Tail(s))

\* s.split(/(?<=[^\s]),\s*(?=[A-Z])/g): a comma separates when the
\* character before it is no white space and the first character after the
\* white space that follows it is a capital; `prev` is the character before
\* s ("" at the start of the string), `cur` the piece begun
RECURSIVE SplitEntries(_, _, _)
SplitEntries(s, prev, cur) ==
    IF s = <<>> THEN <<cur>>
    ELSE IF /\ s[1] = ","
            /\ prev # "" /\ prev \notin Ws
            /\ SkipWs(Tail(s)) # <<>> /\ SkipWs(Tail(s))[1] \in UpperAZ
    THEN <<cur>> \o SplitEntries(SkipWs(Tail(s)), ",", <<>>)
    ELSE SplitEntries(Tail(s), s[1], Append(cur, s[1]))

\* const [namePart] = entry.split(/ as /i): the text before the first
\* " as " of the entry in either case, the whole entry when it has none
RECURSIVE NamePart(_, _)
NamePart(s, cur) ==
    IF s = <<>> THEN cur
    ELSE IF /\ Len(s) >= 4
            /\ s[1] = " " /\ s[2] \in {"a", "A"} /\ s[3] \in {"s", "S"} /\ s[4] = " "
    THEN cur
    ELSE NamePart(Tail(s), Append(cur, s[1]))

\* parseCastNames, the callback of both map calls: a string as it is, the
\* name of an object (an array is one) or 'Unknown Actor', String(actor)
\* for the rest
CastNameOf(actor) ==
    IF actor.t = "string" THEN actor
    ELSE IF actor.t \in {"object", "array"}
    THEN JsOr(Get(actor, K_name), JStr(UnknownActor))
    ELSE JStr(JsString(actor))

\* a callback that names every element that is neither a string nor an
\* object 'Unknown Actor'
CastObjectOfNamedOnly(actor) ==
    IF actor.t = "string" THEN JObj(K_name :> actor)
    ELSE JObj(K_name :> JsOr(Get(actor, K_name), JStr(UnknownActor)))

\* parseCast, the callback of both map calls
CastObjectOf(actor) ==
    IF actor.t = "string" THEN JObj(K_name :> actor)
    ELSE IF actor.t \in {"object", "array"}
    THEN JObj(K_name :> JsOr(Get(actor, K_name), JStr(UnknownActor)))
    ELSE JObj(K_name :> JStr(JsString(actor)))

\* .map(name => name.trim())
TrimmedStrings(pieces) == [i \in 1..Len(pieces) |-> JStr(Trim(pieces[i]))]

\* the name of an entry "name as role"
EntryName(entry) == Trim(NamePart(entry, <<>>))

\* parseCastNames, try block: a bracketed text that JSON.parse reads as an
\* array (an exception of JSON.parse is caught and logged inside), an
\* array, a text with " as ", a comma separated text; includes on a value
\* that is no string raises a TypeError
CastNamesTry(input) ==
    LET parsed == IF input.t = "string" /\ StartsWith(input.s, "[")
                     /\ EndsWith(input.s, "]")
                  THEN JsonParse(input.s) ELSE Throw
    IN  IF parsed # Throw /\ parsed.t = "array"
        THEN JArr([i \in 1..Len(parsed.xs) |-> CastNameOf(parsed.xs[i])])
        ELSE IF input.t = "array"
        THEN JArr([i \in 1..Len(input.xs) |-> CastNameOf(input.xs[i])])
        ELSE IF input.t # "string" THEN Throw
        ELSE IF IncludesAs(input.s)
        THEN LET entries == SplitEntries(input.s, "", <<>>)
             IN  JArr([i \in 1..Len(entries) |-> JStr(EntryName(entries[i]))])
        ELSE JArr(TrimmedStrings(FilterBoolean(SplitCommaWs(input.s, <<>>))))

\* parseCastNames, catch block
CastNamesCatch(input) ==
    IF input.t # "string" THEN JArr(<<>>)
    ELSE JArr(TrimmedStrings(FilterBoolean(SplitCommaWs(input.s, <<>>))))

\* parseCastNames(input)
parseCastNames(input) ==
    IF JsFalsy(input) THEN JArr(<<>>)
    ELSE IF CastNamesTry(input) # Throw THEN CastNamesTry(input)
    ELSE CastNamesCatch(input)

\* parseCast, try block
CastTry(input) ==
    LET parsed == IF input.t = "string" /\ StartsWith(input.s, "[")
                     /\ EndsWith(input.s, "]")
                  THEN JsonParse(input.s) ELSE Throw
    IN  IF parsed # Throw /\ parsed.t = "array"
        THEN JArr([i \in 1..Len(parsed.xs) |-> CastObjectOf(parsed.xs[i])])
        ELSE IF input.t = "array"
        THEN JArr([i \in 1..Len(input.xs) |-> CastObjectOf(input.xs[i])])
        ELSE IF input.t # "string" THEN Throw
        ELSE IF IncludesAs(input.s)
        THEN LET entries == SplitEntries(input.s, "", <<>>)
             IN  JArr([i \in 1..Len(entries) |->
                          JObj(K_name :> JStr(Trim(NamePart(entries[i], <<>>))))])
        ELSE JArr(TrimmedNames(FilterBoolean(SplitCommaWs(input.s, <<>>))))

\* parseCast, catch block
CastCatch(input) ==
    IF input.t # "string" THEN JArr(<<>>)
    ELSE JArr(TrimmedNames(FilterBoolean(SplitCommaWs(input.s, <<>>))))

\* parseCast(input)
parseCast(input) ==
    IF JsFalsy(input) THEN JArr(<<>>)
    ELSE IF CastTry(input) # Throw THEN CastTry(input)
    ELSE CastCatch(input)

\* the cast texts tried: up to MaxEntries entries "name as role" joined by
\* a comma with or without a space after it
Alice == <<"A", "l", "i", "c", "e">>
Bob == <<"B", "o", "b">>
CastNames == {Alice, Bob, <<"b", "o", "b">>}
CastRoles == {<<"H", "e", "r", "o">>, <<"S", "i", "d", "e", "k", "i", "c", "k">>}
CastSeparators == {<<",">>, <<",", " ">>}
As == <<" ", "a", "s", " ">>
CastEntries == [name : CastNames, role : CastRoles]
RECURSIVE EntryListsUpTo(_)
EntryListsUpTo(n) ==
    IF n = 0 THEN {<<>>}
    ELSE EntryListsUpTo(n - 1)
         \cup {Append(es, e) : es \in {x \in EntryListsUpTo(n - 1) : Len(x) = n - 1},
                               e \in CastEntries}
CastEntryLists == EntryListsUpTo(MaxEntries) \ {<<>>}
RECURSIVE CastText(_, _)
CastText(es, sep) ==
    IF Len(es) = 1 THEN es[1].name \o As \o es[1].role
    ELSE es[1].name \o As \o es[1].role \o sep \o CastText(Tail(es), sep)
CastTexts == {CastText(es, sep) : es \in CastEntryLists, sep \in CastSeparators}
CastInputs == ParserInputs \cup {JStr(s) : s \in CastTexts}

\* a caller calls parseCastNames(arg)
ParseCastNamesCall ==
    /\ arg \in CastInputs
    /\ ret = <<>>
    /\ ret' = <<parseCastNames(arg)>>
    /\ UNCHANGED <<processorVars, importVars, otherVars, arg>>

\* and then parseCast(arg), for the same field
ParseCastCall ==
    /\ arg \in CastInputs
    /\ Len(ret) = 1
    /\ ret' = Append(ret, parseCast(arg))
    /\ UNCHANGED <<processorVars, importVars, otherVars, arg>>

InitCast ==
    /\ NoOther
    /\ NoProcessor
    /\ NoImport
    /\ arg \in CastInputs
    /\ ret = <<>>

NextCast ==
    \/ ParseCastNamesCall
    \/ ParseCastCall

SpecCast == InitCast /\ [][NextCast]_vars

\* ------------------------------------------- release_date, revenue, budget
\* The fields of a record that are converted: the cast callback of
\* createCSVParser and transformRow (stream-processor.ts), and
\* CsvService.transformRow (src/unnamed/part_008).  A number is m / 10^k
\* with k as small as possible, NaN, or an infinity; a Date is valid with
\* its year, month and day, or invalid.
MaxMoneyLen == 3      \* length of the revenue texts tried over MoneyAlphabet

Dec(m, k) == [t |-> "number", m |-> m, k |-> k]
NaN == [t |-> "NaN"]
Infinity(neg) == [t |-> "Infinity", neg |-> neg]
BigIntOf(n) == [t |-> "bigint", n |-> n]
ValidDate(y, m, d) == [t |-> "date", valid |-> TRUE, ymd |-> <<y, m, d>>]
InvalidDate == [t |-> "date", valid |-> FALSE, ymd |-> <<0, 0, 0>>]

RECURSIVE Pow10(_)
Pow10(k) == IF k = 0 THEN 1 ELSE 10 * Pow10(k - 1)

\* m / 10^k without the trailing zeros of the fraction
RECURSIVE Normal(_, _)
Normal(m, k) ==
    IF k > 0 /\ m % 10 = 0 THEN Normal(m \div 10, k - 1) ELSE Dec(m, k)

\* the digits at the head of s, and what follows them
RECURSIVE LeadingDigits(_)
LeadingDigits(s) ==
    IF s # <<>> /\ s[1] \in Range(Digits)
    THEN <<s[1]>> \o LeadingDigits(Tail(s))
    ELSE <<>>
RECURSIVE DigitsValue(_, _)
DigitsValue(ds, n) ==
    IF ds = <<>> THEN n ELSE DigitsValue(Tail(ds), 10 * n + DigitValue(ds[1]))
Drop(s, n) == SubSeq(s, n + 1, Len(s))

\* the exponent of a StrDecimalLiteral that goes on with s: 0 unless s is
\* e or E, an optional sign and digits
ExponentOf(s) ==
    IF s = <<>> \/ s[1] \notin {"e", "E"} THEN 0
    ELSE LET signed == Len(s) >= 2 /\ s[2] \in {"+", "-"}
             ds == LeadingDigits(Drop(s, IF signed THEN 2 ELSE 1))
         IN  IF ds = <<>> THEN 0
             ELSE IF signed /\ s[2] = "-" THEN 0 - DigitsValue(ds, 0)
             ELSE DigitsValue(ds, 0)

\* parseFloat(s) of a string: the longest prefix of the trimmed string that
\* is a decimal literal, NaN when there is none
ParseFloatText(s) ==
    LET t == SkipWs(s)
        signed == t # <<>> /\ t[1] \in {"+", "-"}
        neg == signed /\ t[1] = "-"
        u == IF signed THEN Tail(t) ELSE t
        int == LeadingDigits(u)
        v == Drop(u, Len(int))
        frac == IF StartsWith(v, ".") THEN LeadingDigits(Tail(v)) ELSE <<>>
        w == IF StartsWith(v, ".") THEN Drop(v, 1 + Len(frac)) ELSE v
        e == ExponentOf(w)
        m == DigitsValue(int \o frac, 0)
        k == Len(frac) - e
        abs == IF k >= 0 THEN Normal(m, k) ELSE Dec(m * Pow10(0 - k), 0)
    IN  IF Len(u) >= 8 /\ SubSeq(u, 1, 8) = <<"I", "n", "f", "i", "n", "i", "t", "y">>
        THEN Infinity(neg)
        ELSE IF int = <<>> /\ frac = <<>> THEN NaN
        ELSE IF neg THEN Dec(0 - abs.m, abs.k) ELSE abs

\* parseFloat(value): the argument is turned into a string first
parseFloat(value) ==
    IF value.t = "string" THEN ParseFloatText(value.s) ELSE NaN

\* x || 0 for a number x
OrZero(x) == IF x = NaN \/ (x.t = "number" /\ x.m = 0) THEN Dec(0, 0) ELSE x

\* transformRow, parseMoneyValue
parseMoneyValue(value) ==
    IF value \in {JNull, JUndefined, JStr(<<>>)} THEN Dec(0, 0)
    ELSE OrZero(parseFloat(value))

\* Math.round(x): the integer nearest to x, the greater one of two
MathRound(x) ==
    IF x.t # "number" THEN x
    ELSE Dec((2 * x.m + Pow10(x.k)) \div (2 * Pow10(x.k)), 0)

\* BigInt(x) of a number: a RangeError unless x is an integer
BigInt(x) == IF x.t = "number" /\ x.k = 0 THEN BigIntOf(x.m) ELSE Throw

\* the date a text of the form YYYY-MM-DD stands for
IsoDateOf(s) ==
    LET y == DigitsValue(SubSeq(s, 1, 4), 0)
        m == DigitsValue(SubSeq(s, 6, 7), 0)
        d == DigitsValue(SubSeq(s, 9, 10), 0)
    IN  IF /\ Len(s) = 10
           /\ s[5] = "-" /\ s[8] = "-"
           /\ \A i \in {1, 2, 3, 4, 6, 7, 9, 10} : s[i] \in Range(Digits)
           /\ m \in 1..12 /\ d \in 1..31
        THEN ValidDate(y, m, d)
        ELSE InvalidDate

\* new Date(value) for the values met here: a text of DateTexts (a date
\* YYYY-MM-DD, or a text that no date format reads), a Date, which is
\* copied, or null, which is the time 0
NewDate(value) ==
    CASE value.t = "string" -> IsoDateOf(value.s)
      [] value.t = "date" -> value
      [] value.t = "null" -> ValidDate(1970, 1, 1)
      [] OTHER -> InvalidDate

\* createCSVParser, cast: the value of a data record's column, a string
CastValue(column, value) ==
    IF column = "release_date"
    THEN IF JsFalsy(value) THEN JNull ELSE NewDate(value)
    ELSE value

\* the record the decoder delivers for a raw row, a column the file lacks
\* being undefined in it
CastRow(raw) ==
    [c \in DOMAIN raw |->
        IF raw[c] = JUndefined THEN JUndefined ELSE CastValue(c, raw[c])]

\* transformRow, getValue(key)
getValue(row, key) == IF row[key] # JUndefined THEN row[key] ELSE JNull

\* transformRow, the release_date, revenue and budget of the record
ConvertedFields(row) ==
    [release_date |-> IF ~JsFalsy(getValue(row, "release_date"))
                      THEN NewDate(getValue(row, "release_date"))
                      ELSE JNull,
     revenue |-> parseMoneyValue(getValue(row, "revenue")),
     budget |-> parseMoneyValue(getValue(row, "budget"))]

\* CsvService.createCSVParser, cast, and the record it delivers
CsvServiceCastRow(raw) ==
    [c \in DOMAIN raw |->
        IF raw[c] = JUndefined THEN JUndefined
        ELSE IF c = "release_date" THEN NewDate(raw[c])
        ELSE raw[c]]

\* CsvService.transformRow, the same three fields: Throw for the
\* ValidationError that replaces an exception of the conversions
CsvServiceFields(row) ==
    LET revenue == BigInt(MathRound(OrZero(parseFloat(row.revenue))))
        budget == BigInt(MathRound(OrZero(parseFloat(row.budget))))
    IN  IF revenue = Throw \/ budget = Throw THEN Throw
        ELSE [release_date |-> IF ~JsFalsy(row.release_date)
                               THEN NewDate(row.release_date)
                               ELSE JNull,
              revenue |-> revenue,
              budget |-> budget]

\* the raw rows tried
DateTexts ==
    {<<>>,
     <<"2", "0", "2", "4", "-", "0", "1", "-", "1", "5">>,
     <<"1", "9", "9", "9", "-", "1", "2", "-", "3", "1">>,
     <<"2", "0", "2", "4", "-", "1", "3", "-", "0", "1">>,
     <<"0", "0", "0", "0", "-", "0", "0", "-", "0", "0">>,
     <<"N", "/", "A">>,
     <<"a", "b", "c">>}
MoneyAlphabet == {"1", "5", ".", "-", "e", "x"}
RECURSIVE MoneyTextsUpTo(_)
MoneyTextsUpTo(n) ==
    IF n = 0 THEN {<<>>}
    ELSE MoneyTextsUpTo(n - 1)
         \cup {Append(s, c) : s \in {x \in MoneyTextsUpTo(n - 1) : Len(x) = n - 1},
                              c \in MoneyAlphabet}
BudgetTexts == {<<>>, <<"7">>, <<"2", ".", "5">>,
                <<"I", "n", "f", "i", "n", "i", "t", "y">>}
RawRows ==
    [release_date : {JUndefined} \cup {JStr(s) : s \in DateTexts},
     revenue : {JUndefined} \cup {JStr(s) : s \in MoneyTextsUpTo(MaxMoneyLen)},
     budget : {JUndefined} \cup {JStr(s) : s \in BudgetTexts}]

\* the decoder of StreamProcessor reads the raw row arg
DecodeRow ==
    /\ arg \in RawRows
    /\ ret = <<>>
    /\ ret' = <<CastRow(arg)>>
    /\ UNCHANGED <<processorVars, importVars, otherVars, arg>>

\* transformRow builds the record of the decoded row
BuildRecord ==
    /\ arg \in RawRows
    /\ Len(ret) = 1
    /\ ret' = Append(ret, ConvertedFields(ret[1]))
    /\ UNCHANGED <<processorVars, importVars, otherVars, arg>>

\* CsvService decodes the same raw row and builds its record
CsvServiceBuildRecord ==
    /\ arg \in RawRows
    /\ Len(ret) = 2
    /\ ret' = Append(ret, CsvServiceFields(CsvServiceCastRow(arg)))
    /\ UNCHANGED <<processorVars, importVars, otherVars, arg>>

InitFields ==
    /\ NoOther
    /\ NoProcessor
    /\ NoImport
    /\ arg \in RawRows
    /\ ret = <<>>

NextFields ==
    \/ DecodeRow
    \/ BuildRecord
    \/ CsvServiceBuildRecord

SpecFields == InitFields /\ [][NextFields]_vars

\* ------------------------------------------- ImportController.handleImport
MaxFileRows == 2      \* data rows of an uploaded file at most

\* the request: no file part, or a file part with its type, the first row
\* of the file and the number of its data rows
UploadHeaders ==
    {REQUIRED_HEADERS, Without(REQUIRED_HEADERS, {"tagline"}),
     Without(REQUIRED_HEADERS, {"id"})}
Uploads ==
    {[file |-> FALSE]}
    \cup [file : {TRUE}, csv : BOOLEAN, header : UploadHeaders, rows : 0..MaxFileRows]

\* a data row of the upload as the decoder of processStream delivers it:
\* every column of the first row has a value, any other reads undefined
UploadRow ==
    [id |-> IF "id" \in Range(upload.header) THEN "a" ELSE Undefined,
     title |-> IF "title" \in Range(upload.header) THEN "T" ELSE Undefined]

\* new StreamProcessor().processStream(stream) from its call to its
\* settling, for a stream that holds n data rows: k of them reach the
\* transformer, u of them are given to an upsert, and the call ends as
\* `out`.  A summary is returned only after every row that passed the
\* validation was flushed, and after an early close only when at least one
\* record was counted.
ProcessStreamCall(n, k, u, out) ==
    /\ k \in 0..n
    /\ u \in 0..(IF RowRejected(UploadRow) THEN 0 ELSE k)
    /\ out \in {"returned", "thrown"}
    /\ out = "returned" => /\ u = (IF RowRejected(UploadRow) THEN 0 ELSE k)
                           /\ k = n \/ u > 0
    /\ hTransformed' = hTransformed + k
    /\ hUpserts' = hUpserts + u
    /\ unread' = unread - (IF hPc = "fallback" THEN k ELSE 0)

\* handleImport from the request to its first await: find the file part,
\* check its type; a ValidationError goes through the outer catch, which
\* finds tempFilePath empty and rethrows
HandleImportStart ==
    /\ hPc = "request"
    /\ IF ~upload.file \/ ~upload.csv
       THEN /\ hPc' = "thrown"
            /\ hOutcome' = "ValidationError"
       ELSE /\ hPc' = "saving"
            /\ UNCHANGED hOutcome
    /\ UNCHANGED <<processorVars, callVars, otherVars, upload, tempFilePath, tempFile,
                   unread, hTransformed, hUpserts>>

\* handleImport: fs.ensureDir('tmp') and pipeline(file, writeStream);
\* `consumed` rows of the upload were read when it failed
SaveTemp(how, consumed) ==
    /\ hPc = "saving"
    /\ consumed \in 0..upload.rows
    /\ \/ /\ how = "ensureDirFailed"
          /\ consumed = 0
          /\ hPc' = "fallback"
          /\ UNCHANGED <<tempFilePath, tempFile, unread>>
       \/ /\ how = "writeFailed"
          /\ tempFilePath' = TRUE
          /\ tempFile' = "exists"
          /\ unread' = upload.rows - consumed
          /\ hPc' = "fallback"
       \/ /\ how = "saved"
          /\ consumed = upload.rows
          /\ tempFilePath' = TRUE
          /\ tempFile' = "exists"
          /\ unread' = 0
          /\ hPc' = "processing"
    /\ UNCHANGED <<processorVars, callVars, otherVars, upload, hTransformed, hUpserts, hOutcome>>

\* handleImport: await streamProcessor.processStream(fileStream) on the
\* temporary file settles; a rejection is caught by the inner catch
ProcessTempFile(k, u, out) ==
    /\ hPc = "processing"
    /\ ProcessStreamCall(upload.rows, k, u, out)
    /\ hPc' = IF out = "returned" THEN "cleanup" ELSE "fallback"
    /\ UNCHANGED <<processorVars, callVars, otherVars, upload, tempFilePath, tempFile, hOutcome>>

\* handleImport: fs.remove(tempFilePath) after the summary, its failure
\* only logged; return result
RemoveTemp(removed) ==
    /\ hPc = "cleanup"
    /\ tempFile' = IF removed THEN "removed" ELSE tempFile
    /\ hPc' = "returned"
    /\ hOutcome' = "summary"
    /\ UNCHANGED <<processorVars, callVars, otherVars, upload, tempFilePath, unread,
                   hTransformed, hUpserts>>

\* handleImport, inner catch: return await new
\* StreamProcessor().processStream(file) on the upload stream itself; a
\* rejection goes to the outer catch
Fallback(k, u, out) ==
    /\ hPc = "fallback"
    /\ ProcessStreamCall(unread, k, u, out)
    /\ IF out = "returned"
       THEN /\ hPc' = "returned"
            /\ hOutcome' = "summary"
       ELSE /\ hPc' = IF tempFilePath THEN "errorCleanup" ELSE "thrown"
            /\ hOutcome' = "Error"
    /\ UNCHANGED <<processorVars, callVars, otherVars, upload, tempFilePath, tempFile>>

\* handleImport, outer catch: fs.remove(tempFilePath), its failure only
\* logged; throw error
ErrorCleanup(removed) ==
    /\ hPc = "errorCleanup"
    /\ tempFile' = IF removed THEN "removed" ELSE tempFile
    /\ hPc' = "thrown"
    /\ UNCHANGED <<processorVars, callVars, otherVars, upload, tempFilePath, unread,
                   hTransformed, hUpserts, hOutcome>>

InitImport ==
    /\ NoOther
    /\ NoProcessor
    /\ NoCall
    /\ hPc = "request"
    /\ upload \in Uploads
    /\ tempFilePath = FALSE
    /\ tempFile = "none"
    /\ unread = IF upload.file THEN upload.rows ELSE 0
    /\ hTransformed = 0
    /\ hUpserts = 0
    /\ hOutcome = ""

NextImport ==
    \/ HandleImportStart
    \/ \E how \in {"ensureDirFailed", "writeFailed", "saved"}, consumed \in 0..MaxFileRows :
          SaveTemp(how, consumed)
    \/ \E k, u \in 0..MaxFileRows, out \in {"returned", "thrown"} :
          ProcessTempFile(k, u, out)
    \/ \E removed \in BOOLEAN : RemoveTemp(removed)
    \/ \E k, u \in 0..MaxFileRows, out \in {"returned", "thrown"} :
          Fallback(k, u, out)
    \/ \E removed \in BOOLEAN : ErrorCleanup(removed)

SpecImport == InitImport /\ [][NextImport]_vars

\* ------------------------------------------------- CsvService.importMovies
\* csv.service.ts (src/unnamed/part_008): one importMovies call, from the
\* await of its pipeline (file, decoder, transformer, batch processor) on.
\* config.csv.batchSize is read as batchSize.
MaxCsvRows == 3       \* data rows of the file importMovies reads

\* createTransformer: callback() -- every branch of the transform ends its
\* row without a second argument, so no chunk goes on to the batch
\* processor
TransformerOutput(row) == <<>>

\* importMovies: the object it returns
CsvSummary ==
    [kind |-> "summary",
     success |-> TRUE,
     count |-> csvProcessedCount,
     errorCount |-> Len(csvErrorRows),
     errors |-> SubSeq(csvErrorRows, 1, Min(ErrorSampleCap, Len(csvErrorRows)))]
CsvThrown(error) == [kind |-> "thrown", error |-> error]

\* createTransformer, transform: the row is counted, then recorded in
\* errorRows or transformed and pushed to batch.  createBatchProcessor,
\* transform: runs for each chunk the transformer passes on and awaits
\* processBatch when batch has reached the batch size.
CsvTransformRow(row, throws) ==
    /\ csvPc = "pipeline"
    /\ csvAwaiting = "none"
    /\ csvRowNumber < MaxCsvRows
    /\ csvRowNumber' = csvRowNumber + 1
    /\ LET n == csvRowNumber + 1
           batch == IF ~RowRejected(row) /\ throws = ""
                    THEN Append(csvBatch, transformRow(row, n))
                    ELSE csvBatch
       IN  /\ csvErrorRows' =
                 IF RowRejected(row)
                 THEN Append(csvErrorRows, [row |-> n, error |-> MissingFieldError])
                 ELSE IF throws # ""
                 THEN Append(csvErrorRows, [row |-> n, error |-> <<throws>>])
                 ELSE csvErrorRows
           /\ csvBatch' = batch
           /\ csvAwaiting' = IF TransformerOutput(row) # <<>> /\ Len(batch) >= batchSize
                             THEN "transform" ELSE "none"
    /\ UNCHANGED <<csvPc, csvProcessedCount, csvCounted, csvRet, csvInserts,
                   streamVars, processorVars, importVars, callVars>>

\* importMovies: the pipeline has resolved, the summary is built and the
\* finally block awaits prisma.$disconnect()
CsvPipelineResolved ==
    /\ csvRet' = <<CsvSummary>>
    /\ csvPc' = "disconnect"

\* the file ends.  createBatchProcessor, flush: awaits processBatch when
\* batch is not empty; callback() ends the pipeline
CsvStreamEnd ==
    /\ csvPc = "pipeline"
    /\ csvAwaiting = "none"
    /\ IF Len(csvBatch) > 0
       THEN /\ csvAwaiting' = "flush"
            /\ UNCHANGED <<csvPc, csvRet>>
       ELSE /\ CsvPipelineResolved
            /\ UNCHANGED csvAwaiting
    /\ UNCHANGED <<csvRowNumber, csvBatch, csvErrorRows, csvProcessedCount,
                   csvCounted, csvInserts, streamVars, processorVars,
                   importVars, callVars>>

\* the file or the decoder fails: the pipeline rejects, the catch block
\* throws a DatabaseError and the finally block awaits $disconnect()
CsvStreamError ==
    /\ csvPc = "pipeline"
    /\ csvAwaiting = "none"
    /\ csvRet' = <<CsvThrown("DatabaseError")>>
    /\ csvPc' = "disconnect"
    /\ UNCHANGED <<csvRowNumber, csvBatch, csvErrorRows, csvProcessedCount,
                   csvCounted, csvAwaiting, csvInserts, streamVars,
                   processorVars, importVars, callVars>>

\* processBatch(batch) settles: createMany in a transaction resolved, or
\* rejected and processBatch threw its DatabaseError.  The handler adds
\* batch.length to its own processedCount after a success and logs a
\* failure; transform then empties batch, flush ends the pipeline.
CsvInsertSettles(ok) ==
    /\ csvAwaiting # "none"
    /\ csvInserts' = Append(csvInserts, [size |-> Len(csvBatch), ok |-> ok])
    /\ csvCounted' = IF ok THEN csvCounted + Len(csvBatch) ELSE csvCounted
    /\ csvAwaiting' = "none"
    /\ IF csvAwaiting = "transform"
       THEN /\ csvBatch' = IF ok THEN <<>> ELSE csvBatch
            /\ UNCHANGED <<csvPc, csvRet>>
       ELSE /\ CsvPipelineResolved
            /\ UNCHANGED csvBatch
    /\ UNCHANGED <<csvRowNumber, csvErrorRows, csvProcessedCount, streamVars,
                   processorVars, importVars, callVars>>

CsvInsertOk == CsvInsertSettles(TRUE)
CsvInsertFail == CsvInsertSettles(FALSE)

\* importMovies, finally: $disconnect() settles; its rejection replaces
\* what importMovies was about to return or throw
CsvDisconnect(ok) ==
    /\ csvPc = "disconnect"
    /\ IF ok
       THEN /\ csvPc' = IF csvRet[1].kind = "summary" THEN "returned" ELSE "thrown"
            /\ UNCHANGED csvRet
       ELSE /\ csvPc' = "thrown"
            /\ csvRet' = <<CsvThrown("disconnect failed")>>
    /\ UNCHANGED <<csvRowNumber, csvBatch, csvErrorRows, csvProcessedCount,
                   csvCounted, csvAwaiting, csvInserts, streamVars,
                   processorVars, importVars, callVars>>

CsvDisconnectOk == CsvDisconnect(TRUE)
CsvDisconnectFail == CsvDisconnect(FALSE)

InitCsvService ==
    /\ NoImport
    /\ NoCall
    /\ batchSize \in 1..MaxBatchSize
    /\ FreshProcessor(RowNumbers)
    /\ csvPc = "pipeline"
    /\ csvRowNumber = 0
    /\ csvBatch = <<>>
    /\ csvErrorRows = <<>>
    /\ csvProcessedCount = 0
    /\ csvCounted = 0
    /\ csvAwaiting = "none"
    /\ csvRet = <<>>
    /\ csvInserts = <<>>
    /\ streamState = "open"
    /\ chunksLength = 0

NextCsvService ==
    \/ \E id \in RawIds, title \in RawTitles, throws \in TransformErrors \cup {""} :
          CsvTransformRow([id |-> id, title |-> title], throws)
    \/ CsvStreamEnd
    \/ CsvStreamError
    \/ CsvInsertOk
    \/ CsvInsertFail
    \/ CsvDisconnectOk
    \/ CsvDisconnectFail

SpecCsvService == InitCsvService /\ [][NextCsvService]_vars

\* ------------------------------------------------------------ properties
Final == {"committed", "failed"}
Settled == pc \in {"returned", "thrown"}
\* records whose upsert has succeeded, counted or not yet counted
Committed == processedCount + insertedCount
RowDelivered == rowNumber' = rowNumber + 1
\* the record at the head of the flush in flight
Item == batchToProcess[idx]
IsLast(seq, x) == seq # <<>> /\ seq[Len(seq)] = x

\* C1: a delivered row whose id or title is missing or empty adds exactly
\* one ErrorRow (its row number, the missing-field message), leaves the
\* current batch and the flush in flight as they are and leaves the
\* transformer accepting rows; no such row is ever batched or upserted; and
\* a later row that has both fields and transforms is appended as usual.
C1_MissingFieldRow ==
    /\ [](\A n \in lacking :
            /\ outcome[n] = "rejected"
            /\ lastUpsert.row # n
            /\ \A i \in 1..Len(currentBatch) : currentBatch[i].row # n
            /\ \A i \in 1..Len(batchToProcess) : batchToProcess[i].row # n)
    /\ [][RowDelivered =>
            IF rowNumber' \in lacking'
            THEN /\ errorRows' = Append(errorRows,
                        [row |-> rowNumber', error |-> MissingFieldError])
                 /\ currentBatch' = currentBatch
                 /\ batchToProcess' = batchToProcess
                 /\ processedCount' = processedCount
                 /\ pc' = "pipeline"
            ELSE \/ /\ outcome'[rowNumber'] = "threw"
                    /\ Len(errorRows') = Len(errorRows) + 1
                 \/ /\ errorRows' = errorRows
                    /\ \E id \in Ids :
                          LET rec == [id |-> id, row |-> rowNumber']
                          IN  \/ currentBatch' = Append(currentBatch, rec)
                              \/ /\ batchToProcess' = Append(currentBatch, rec)
                                 /\ currentBatch' = <<>>]_vars

\* C1 witness: a row lacking a field was rejected and a later row was
\* committed
C1_Witness ==
    \E m, n \in RowNumbers :
        m < n /\ m \in lacking /\ outcome[m] = "rejected" /\ outcome[n] = "committed"

\* C2: a record is upserted at most MAX_RETRIES times.  An upsert that
\* succeeds adds one to the committed count and no ErrorRow; a failure that
\* is not the third adds nothing and keeps the flush on the same record; the
\* third failure adds exactly one ErrorRow {row: -1} carrying the record's
\* id and the message of that last failure, and nothing to the count.
C2_RetryThenCommitOrError ==
    /\ [](/\ lastUpsert.n <= MAX_RETRIES
          /\ \A n \in RowNumbers :
                (outcome[n] = "failed" /\ lastUpsert.row = n)
                    => lastUpsert.n = MAX_RETRIES /\ lastUpsert.error # "")
    /\ [][lastUpsert' # lastUpsert =>
            /\ flushOwner # "none"
            /\ lastUpsert'.row = Item.row
            /\ IF lastUpsert'.error = ""
               THEN /\ Committed' = Committed + 1
                    /\ errorRows' = errorRows
                    /\ outcome'[Item.row] = "committed"
               ELSE IF lastUpsert'.n = MAX_RETRIES
               THEN /\ Committed' = Committed
                    /\ errorRows' = Append(errorRows,
                          [row |-> -1,
                           error |-> RecordError(Item.id, lastUpsert'.error)])
                    /\ outcome'[Item.row] = "failed"
               ELSE /\ Committed' = Committed
                    /\ errorRows' = errorRows
                    /\ outcome'[Item.row] = "flushing"
                    /\ idx' = idx /\ batchToProcess' = batchToProcess]_vars
    /\ [][\A n \in RowNumbers : outcome[n] \in Final => outcome'[n] = outcome[n]]_vars

\* C2 witness: a record committed by its third upsert, after two failures,
\* while another record has failed three times
C2_Witness ==
    /\ lastUpsert.n = MAX_RETRIES
    /\ lastUpsert.error = ""
    /\ outcome[lastUpsert.row] = "committed"
    /\ \E n \in RowNumbers : outcome[n] = "failed"
    /\ processedCount > 0

\* C3: a record's permanent failure aborts neither the batch nor the
\* import.  The step that records it moves the flush to the next record of
\* the same batch (or ends the flush when it was the last), throws nothing
\* and leaves the current batch and the pending flush calls alone; a row
\* taken by a flush and not yet final is always still ahead in the batch in
\* flight; and when processStream has returned, every row that was batched
\* is final, whatever failed before it.
C3_FailureAbortsNothing ==
    /\ [](\A n \in RowNumbers :
            outcome[n] = "flushing" =>
                /\ flushOwner # "none"
                /\ isProcessing
                /\ \E i \in idx..Len(batchToProcess) : batchToProcess[i].row = n)
    /\ [](pc = "returned" =>
            \A n \in 1..rowNumber : outcome[n] \in Final \cup {"rejected", "threw"})
    /\ [][\A n \in RowNumbers :
            (outcome[n] # "failed" /\ outcome'[n] = "failed") =>
                /\ Item.row = n
                /\ IF idx < Len(batchToProcess)
                   THEN /\ idx' = idx + 1
                        /\ batchToProcess' = batchToProcess
                        /\ flushOwner' = flushOwner
                        /\ isProcessing'
                        /\ pc' = pc
                   ELSE /\ ~isProcessing'
                        /\ pc' \in {pc, "waitForProcessing"}
                /\ thrown' = thrown
                /\ currentBatch' = currentBatch
                /\ waiters' = waiters]_vars

\* C3 witness: processStream returned a summary of a run in which a record
\* failed for good and the next row was committed after it
C3_Witness ==
    /\ pc = "returned"
    /\ \E n \in 1..(MaxRows - 1) :
          outcome[n] = "failed" /\ outcome[n + 1] = "committed"
    /\ Len(flushSizes) >= 2

\* C4: processStream ends in one of two ways, the summary or one thrown
\* error, and whenever the input stream ends without an I/O error it does
\* not throw, whatever rows were invalid and whatever upserts failed.
C4_NoThrowWithoutStreamError ==
    /\ (pc \in {"catchDisconnect", "thrown"}) = (thrown # "")
    /\ pc = "returned" => result # <<>>
    /\ pipelineError = "" => pc \notin {"catchDisconnect", "thrown"}

\* What holds of the throws of processStream: it throws the pipeline's
\* error or the failure of the final $disconnect, never a row's or a
\* record's error, and until it has ended it can always take a step.
ThrowsOnlyStreamOrDisconnectError ==
    /\ (pc \in {"catchDisconnect", "thrown"}) = (thrown # "")
    /\ thrown \in {"", "disconnect failed"} \cup StreamErrorCodes
    /\ thrown \in StreamErrorCodes => thrown = pipelineError /\ result = <<>>
    /\ thrown = "disconnect failed" => result # <<>>
    /\ pc = "returned" => result # <<>> /\ thrown = ""
    /\ ~Settled => ENABLED Next

\* C5: once the summary is built the current batch is empty, no flush is
\* in progress and every row that was appended to a batch is committed or
\* recorded as failed; the summary counts exactly the committed rows.
C5_DrainedBeforeSummary ==
    result # <<>> =>
        /\ currentBatch = <<>>
        /\ ~isProcessing
        /\ flushOwner = "none"
        /\ \A n \in RowNumbers : outcome[n] \notin {"batched", "flushing"}
        /\ result[1].count = Cardinality({n \in RowNumbers : outcome[n] = "committed"})

\* C5 witness: the input ended normally with a partial batch accumulated,
\* which the final flush of processStream took, and the summary is built
C5_Witness ==
    /\ result # <<>>
    /\ pipelineError = ""
    /\ Len(flushSizes) >= 2
    /\ flushSizes[Len(flushSizes)] < batchSize
    /\ result[1].count = 3

\* the flushes of n rows in batches of b: b, ..., b and then n mod b
ExpectedFlushes(n, b) ==
    [i \in 1..((n + b - 1) \div b) |-> IF i * b <= n THEN b ELSE n % b]

\* C6: when the input has ended and all N delivered rows were valid, the
\* batches taken were ceil(N / batchSize) batches, each of batchSize records
\* except a last one of N mod batchSize.
C6_FlushSizes ==
    (/\ pc = "returned"
     /\ pipelineError = ""
     /\ \A n \in 1..rowNumber : outcome[n] \in Final)
        => flushSizes = ExpectedFlushes(rowNumber, batchSize)

\* C7: the current batch, and the batch a flush has taken, hold at most
\* batchSize records.
C7_BatchBounded ==
    /\ Len(currentBatch) <= batchSize
    /\ Len(batchToProcess) <= batchSize

\* records transformed whose commit has not finished: the current batch and
\* what is left of the batch in flight
Unfinished ==
    Len(currentBatch)
        + (IF flushOwner = "none" THEN 0 ELSE Len(batchToProcess) - idx + 1)

\* C8: the rows transformed and not yet through their commit are at most
\* 2 x batchSize.
C8_DecoderBoundedAhead == Unfinished <= 2 * batchSize

\* C9: the step in which the input stream closes prematurely, when at
\* least one upsert has already succeeded, does not take processStream to
\* its throw.
C9_PartialSuccessAfterCommit ==
    [][(/\ pc = "pipeline"
        /\ pipelineError' = "ERR_STREAM_PREMATURE_CLOSE"
        /\ \E n \in RowNumbers : outcome[n] = "committed")
           => pc' \notin {"catchDisconnect", "thrown"} /\ thrown' = ""]_vars

C11_CleanupBeforeSettle ==
    Settled => /\ ~keepAliveInterval
               /\ ~processingActive
               /\ disconnects >= 1

\* processStream has thrown a stream error after stopping the timer and
\* disconnecting once
C11_Witness ==
    /\ pc = "thrown"
    /\ thrown = "EIO"
    /\ disconnects = 1
    /\ ~keepAliveInterval

\* C12: in every returned summary errorCount is the number of ErrorRows
\* recorded (not capped), the errors list has min(10, errorCount) entries,
\* entry i is the i-th ErrorRow recorded, and the entries that carry a row
\* number carry increasing ones; an ErrorRow is only ever appended.
C12_ErrorSample ==
    /\ [](pc = "returned" =>
            LET s == result[1]
            IN  /\ s.errorCount = Len(errorRows)
                /\ Len(s.errors) = Min(10, s.errorCount)
                /\ \A i \in 1..Len(s.errors) : s.errors[i] = errorRows[i]
                /\ \A i, j \in 1..Len(s.errors) :
                      i < j /\ s.errors[i].row # -1 /\ s.errors[j].row # -1
                      => s.errors[i].row < s.errors[j].row)
    /\ [][\/ errorRows' = errorRows
          \/ /\ Len(errorRows') = Len(errorRows) + 1
             /\ SubSeq(errorRows', 1, Len(errorRows)) = errorRows]_vars

\* a summary returned with more ErrorRows recorded than it lists, one of
\* them the failure of a record
C12_Witness ==
    /\ pc = "returned"
    /\ result[1].errorCount = 11
    /\ Len(result[1].errors) = 10
    /\ \E i \in 1..10 : result[1].errors[i].row = -1

\* the data rows delivered that have both id and title
Complete == (1..rowNumber) \ lacking

\* C13: when the stream has ended normally, no record has failed for good
\* and no row has made transformRow raise, the returned summary's count is
\* the number of data rows with both id and title, its errorCount the
\* number of rows lacking either, and each of the first 10 such rows has
\* its 1-based row number in the errors list; for 3 rows of which row 2
\* lacks a field that is count 2, errorCount 1 and one error with row 2.
C13_CountsOnCleanRun ==
    pc = "returned" /\ pipelineError = ""
      /\ (\A n \in RowNumbers : outcome[n] \notin {"failed", "threw"})
    => LET s == result[1]
       IN  /\ s.count = Cardinality(Complete)
           /\ s.errorCount = Cardinality(lacking)
           /\ \A n \in lacking :
                 Cardinality({m \in lacking : m <= n}) <= 10
                 => \E i \in 1..Len(s.errors) : s.errors[i].row = n
           /\ rowNumber = 3 /\ lacking = {2}
              => /\ s.count = 2
                 /\ s.errorCount = 1
                 /\ s.errors = <<[row |-> 2, error |-> MissingFieldError]>>

\* the summary of a clean run over 3 rows of which row 2 lacks a field
C13_Witness ==
    /\ pc = "returned" /\ pipelineError = ""
    /\ rowNumber = 3 /\ lacking = {2}
    /\ outcome[1] = "committed" /\ outcome[3] = "committed"
    /\ result[1].count = 2
    /\ result[1].errorCount = 1

\* a step that ends the flush in flight
FlushEnds == flushOwner # "none" /\ flushOwner' = "none"
\* the records of the flush in flight whose upsert has succeeded by the end
\* of the step
SucceededInBatch ==
    Cardinality({i \in 1..Len(batchToProcess) :
                    outcome'[batchToProcess[i].row] = "committed"})

\* C14: the step that ends a flush adds to processedCount the number of
\* records of its batch whose upsert succeeded, and no other step changes
\* processedCount.
C14_CountsSucceededOnly ==
    [][IF FlushEnds
       THEN processedCount' = processedCount + SucceededInBatch
       ELSE processedCount' = processedCount]_vars

\* a flush of two records has ended, one of them failed: one is counted
C14_Witness ==
    /\ flushSizes = <<2>>
    /\ flushOwner = "none"
    /\ processedCount = 1
    /\ \E n \in RowNumbers : outcome[n] = "failed"

\* C15: while handleImport handles an upload whose first row lacks a
\* required column no row of it is transformed and no upsert is issued,
\* and handleImport does not return a summary for it.
C15_BadHeaderStopsImport ==
    hPc # "idle" /\ upload.file /\ upload.csv
      /\ MissingHeaders(upload.header) # <<>>
    => /\ hTransformed = 0
       /\ hUpserts = 0
       /\ hPc # "returned"

\* required columns that do not occur in the first row of the stream
Absent == Range(REQUIRED_HEADERS) \ Range(arg.header)
\* the verdict of validateCsvHeaders on the first row of the stream: null
\* exactly when no required column is absent, otherwise a message that
\* names every absent column and no column of the first row, 25 columns
\* for the first row id,title,vote_average
VerdictOnFirstRow(r) ==
    /\ r = Null <=> Absent = {}
    /\ Absent # {} => /\ r.kind = "message"
                      /\ Absent \subseteq Range(r.text)
                      /\ Range(r.text) \cap Range(arg.header) = {}
    /\ arg.header = <<"id", "title", "vote_average">>
       => /\ r.kind = "message"
          /\ Cardinality(Range(r.text) \cap Range(REQUIRED_HEADERS)) = 25

C17_EmptyStreamMessage ==
    ret # <<>> /\ arg.chunks = 0
    => /\ ret[1] = Message(EmptyFileMessage)
       /\ ret[1].kind # "rejected"
       /\ ret[1] # Null

\* validateCsvHeaders has settled for a stream that delivered nothing
C17_Witness ==
    /\ arg \in CsvStreams
    /\ arg.chunks = 0
    /\ ret = <<Message(EmptyFileMessage)>>

\* C18: the id of every record given to an upsert is a non-empty string,
\* and no upsert succeeds for an id that an earlier upsert of the same
\* import has already committed.
C18_CommittedIdsDistinct ==
    /\ [](\A i \in 1..Len(batchToProcess) : ~Falsy(batchToProcess[i].id))
    /\ [][\A n \in RowNumbers :
            outcome[n] # "committed" /\ outcome'[n] = "committed"
            => Item.id \notin committedIds]_vars

\* the elements of a list are objects that have a name
NamedObjects(list) ==
    \A i \in 1..Len(list.xs) :
        list.xs[i].t = "object" /\ K_name \in DOMAIN list.xs[i].o

\* C19: parseProductionCompanies raises for no input: it returns a list
\* of objects with a name, the empty list for null, undefined and the
\* empty string, and for an input that no structured strategy accepts a
\* list of one element whose name is the text of the input.
C19_NeverRaises ==
    ret # <<>> =>
       /\ ret[1] # Throw
       /\ ret[1].t = "array"
       /\ NamedObjects(ret[1])
       /\ arg \in {JNull, JUndefined, JStr(<<>>)} => ret[1] = JArr(<<>>)
       /\ arg \in {JNum(5), JArr(<<JNull>>)}
          => ret[1] = JArr(<<JObj(K_name :> JStr(JsString(arg)))>>)

\* the list returned for an array whose element is null, the input on
\* which the map of the try block raises
C19_Witness ==
    /\ arg = JArr(<<JNull>>)
    /\ ret # <<>>
    /\ ret[1] = JArr(<<JObj(K_name :> JStr(<<>>))>>)

A == JStr(<<"A">>)
B == JStr(<<"B">>)
\* what parseProductionCompanies returns for the three texts of the claim
ExampleLists(named) ==
    /\ arg = JStr(<<"[", "{", "\"", "n", "a", "m", "e", "\"", ":", "\"", "A", "\"", "}", "]">>)
       => ret[1] = JArr(<<named>>)
    /\ arg = JStr(<<"A", ",", " ", "B">>)
       => ret[1] = JArr(<<JObj(K_name :> A), JObj(K_name :> B)>>)
    /\ arg = JStr(<<"[", "B", "o", "o", "n", "d", "o", "c", "s", "]">>)
       => ret[1] = JArr(<<JObj(K_name :> JStr(<<"B", "o", "o", "n", "d", "o", "c", "s">>))>>)

\* C20 as stated: parseProductionCompanies applied to a list it has
\* returned gives that same list, and the three texts give [{name: "A"}],
\* [{name: "A"}, {name: "B"}] and [{name: "Boondocs"}].
C20_Original ==
    /\ ret # <<>> => ExampleLists(JObj(K_name :> A))
    /\ Len(ret) >= 2 => ret[2] = ret[1]

\* C20, amended: parseProductionCompanies applied to a list it has
\* returned gives a list of the same length whose i-th element has the
\* name of the i-th element, or "Unknown" when that name is empty, and its
\* id, or null when it has none; applied to that list it gives the same
\* list.  The text [{"name":"A"}] gives [{name: "A", id: null}], the other
\* two texts give [{name: "A"}, {name: "B"}] and [{name: "Boondocs"}].
C20_StableFromSecondCall ==
    /\ ret # <<>> => ExampleLists(JObj((K_name :> A) @@ (K_id :> JNull)))
    /\ Len(ret) >= 2 =>
          /\ ret[2].t = "array"
          /\ Len(ret[2].xs) = Len(ret[1].xs)
          /\ \A i \in 1..Len(ret[1].xs) :
                LET c == ret[1].xs[i]
                    d == ret[2].xs[i]
                IN  /\ DOMAIN d.o = {K_name, K_id}
                    /\ d.o[K_name] = IF c.o[K_name] = JStr(<<>>)
                                     THEN JStr(Unknown) ELSE c.o[K_name]
                    /\ d.o[K_id] = IF K_id \in DOMAIN c.o THEN c.o[K_id] ELSE JNull
    /\ Len(ret) >= 3 => ret[3] = ret[2]

\* the list returned for "A|" has an empty name, which a second call
\* turns into "Unknown" and a third call keeps
C20_Witness ==
    /\ arg = JStr(<<"A", "|">>)
    /\ Len(ret) = 3
    /\ ret[1] = JArr(<<JObj(K_name :> A), JObj(K_name :> JStr(<<>>))>>)
    /\ ret[2] = JArr(<<JObj((K_name :> A) @@ (K_id :> JNull)),
                       JObj((K_name :> JStr(Unknown)) @@ (K_id :> JNull))>>)
    /\ ret[3] = ret[2]

\* ------------------------------------------------------------------ C21
NamesOf(es) == [i \in 1..Len(es) |-> JStr(es[i].name)]
NameObjectsOf(es) == [i \in 1..Len(es) |-> JObj(K_name :> JStr(es[i].name))]
IsCastTextOf(es) == \E sep \in CastSeparators : arg = JStr(CastText(es, sep))
ExampleCast == <<[name |-> Alice, role |-> <<"H", "e", "r", "o">>],
                 [name |-> Bob, role |-> <<"S", "i", "d", "e", "k", "i", "c", "k">>]>>

\* C21: for a cast text made of comma separated entries "name as role",
\* parseCastNames returns the names in order without the roles and
\* parseCast the same names each wrapped as {name}.
C21_NamesWithoutRoles ==
    \A es \in CastEntryLists :
        IsCastTextOf(es) =>
            /\ Len(ret) >= 1 => ret[1] = JArr(NamesOf(es))
            /\ Len(ret) >= 2 => ret[2] = JArr(NameObjectsOf(es))

\* C21, the example of the claim: "Alice as Hero, Bob as Sidekick" gives
\* ["Alice","Bob"] and [{name:"Alice"},{name:"Bob"}].
C21_Example ==
    (arg = JStr(CastText(ExampleCast, <<",", " ">>)) /\ Len(ret) = 2)
        => ret = <<JArr(NamesOf(ExampleCast)), JArr(NameObjectsOf(ExampleCast))>>

\* ------------------------------------------------------------------ C22
Parseable(raw) == raw.t = "string" /\ IsoDateOf(raw.s).valid

\* C22: the release_date of the record built from a row is null when the
\* raw release_date is absent, empty or not parseable as a date, and a
\* valid date otherwise; building it never raises.
C22_BadDateIsNull ==
    Len(ret) >= 2 =>
        /\ ret[2] # Throw
        /\ IF Parseable(arg.release_date)
           THEN ret[2].release_date = IsoDateOf(arg.release_date.s)
           ELSE ret[2].release_date = JNull

\* ------------------------------------------------------------------ C23
\* the parsed number with its fraction cut off, 0 when there is no number
Truncated(value) ==
    LET x == OrZero(parseFloat(value))
    IN  IF x.t # "number" THEN x
        ELSE IF x.m >= 0 THEN Dec(x.m \div Pow10(x.k), 0)
        ELSE Dec(0 - ((0 - x.m) \div Pow10(x.k)), 0)
Integral(x) == (x.t = "number" /\ x.k = 0) \/ x.t = "bigint"
IntegerOf(x) == IF x.t = "bigint" THEN x.n ELSE x.m

\* C23: the revenue and budget of every record built from a row are
\* integral values, the parsed number truncated, and 0 when the raw field
\* is absent, empty or unparseable.
C23_MoneyTruncated ==
    \A i \in 2..Len(ret) :
        ret[i] # Throw =>
            \A f \in {"revenue", "budget"} :
                /\ Integral(ret[i][f])
                /\ Truncated(arg[f]).t = "number"
                /\ IntegerOf(ret[i][f]) = Truncated(arg[f]).m

\* ------------------------------------------------------------------ C24
\* a processBatch invocation passes the guard and keeps it: it takes a
\* batch (one that finds the batch empty releases the guard before its
\* first await)
TakesBatch == Len(flushSizes') = Len(flushSizes) + 1

\* C24: at most one flush executes at a time: the guard is set exactly
\* while one invocation is between taking its batch and its finally block,
\* and an invocation takes a batch only when the guard is free, however
\* many fire-and-forget calls are polling.
C24_OneFlushAtATime ==
    /\ [](isProcessing <=> flushOwner # "none")
    /\ [][TakesBatch => ~isProcessing /\ flushOwner = "none" /\ isProcessing']_vars

C24_Witness == isProcessing /\ waiters >= 2 /\ pc = "finalWait"

\* ------------------------------------------------------------------ C25
\* the records of two batches are different records
Disjoint(b1, b2) ==
    \A i \in 1..Len(b1), j \in 1..Len(b2) : b1[i].row # b2[j].row

\* C25: while a flush is in flight the transformer accepts the next row
\* without waiting for it; a row that arrives then and is transformed is
\* appended to the current batch, which shares no record with the batch
\* being flushed, and the batch being flushed stays as it was taken.
C25_FlushDoesNotBlockProducer ==
    /\ [](pc = "pipeline" /\ isProcessing /\ rowNumber < MaxRows
            => ENABLED TransformRowStep([id |-> "a", title |-> "T"], ""))
    /\ [][isProcessing /\ RowDelivered =>
            /\ batchToProcess' = batchToProcess
            /\ idx' = idx
            /\ isProcessing'
            /\ Disjoint(currentBatch', batchToProcess')
            /\ outcome'[rowNumber'] \notin {"rejected", "threw"} =>
                  /\ outcome'[rowNumber'] = "batched"
                  /\ Len(currentBatch') = Len(currentBatch) + 1
                  /\ SubSeq(currentBatch', 1, Len(currentBatch)) = currentBatch
                  /\ currentBatch'[Len(currentBatch')].row = rowNumber']_vars

C25_Witness ==
    /\ flushOwner # "none"
    /\ Len(currentBatch) >= 2
    /\ \A i \in 1..Len(currentBatch) : outcome[currentBatch[i].row] = "batched"

\* ------------------------------------------------------------------ C26
RECURSIVE SumSeq(_)
SumSeq(sizes) == IF sizes = <<>> THEN 0 ELSE Head(sizes) + SumSeq(Tail(sizes))
\* the rows whose record was appended to the current batch
Appended == {n \in 1..rowNumber : outcome[n] \notin {"rejected", "threw"}}

\* C26: when the summary is built every record that was appended to the
\* current batch has been taken by a flush, and the batches taken hold as
\* many records as were appended: none is dropped, none is taken twice.
C26_TakenExactlyOnce ==
    result # <<>> =>
        /\ \A n \in Appended : outcome[n] \in Final
        /\ SumSeq(flushSizes) = Cardinality(Appended)

C26_Witness ==
    /\ result # <<>>
    /\ Len(flushSizes) >= 3
    /\ \E i \in 1..Len(flushSizes) : flushSizes[i] > batchSize

\* ------------------------------------------------------------------ C27
\* a storage operation of the flush: an upsert call, or a batch taken
StorageOperation == lastUpsert' # lastUpsert \/ TakesBatch

\* C27: once processStream has returned or thrown, no upsert is issued and
\* no flush starts or goes on.
C27_ClosedIsTerminal == [][Settled => ~StorageOperation]_vars

\* C27, the runs that return: after the summary no upsert is issued and no
\* batch is taken.
C27_QuietAfterSummary == [][result # <<>> => ~StorageOperation]_vars

\* ------------------------------------------------------------------ C28
\* C28: the summary's count + errorCount is the number of data rows the
\* decoder delivered to the transformer, whatever the outcomes of the
\* upserts (no batch-level error occurs in these runs).
C28_EveryRowCountedOnce ==
    result # <<>> => result[1].count + result[1].errorCount = rowNumber

C28_Witness ==
    /\ pc = "returned"
    /\ rowNumber = MaxRows
    /\ result[1].count >= 1
    /\ \E n, m, k \in 1..rowNumber :
          outcome[n] = "failed" /\ outcome[m] = "rejected" /\ outcome[k] = "committed"

\* ------------------------------------------------------------------ C30
\* an upsert call settles in this step (a call is issued and awaited by the
\* one flush in flight, so it starts after the call before it has settled)
UpsertSettles == lastUpsert' # lastUpsert

\* C30: upserts are issued in stream order: a call is for the row of the
\* call before it or for a later row, the calls for a row are over (it is
\* committed or has failed for good) when the first call for a later row
\* settles, within a batch and from one batch to the next; so a call that
\* succeeds is for a row later than every row committed so far, and of two
\* committed rows with the same id the store keeps the later one.
C30_UpsertsInStreamOrder ==
    [][UpsertSettles =>
          /\ lastUpsert'.row >= lastUpsert.row
          /\ lastUpsert'.row > lastUpsert.row /\ lastUpsert.row # 0
                => outcome[lastUpsert.row] \in Final
          /\ \A m \in DOMAIN outcome :
                m > lastUpsert'.row => outcome[m] \notin Final
          /\ lastUpsert'.error = "" =>
                \A m \in DOMAIN outcome :
                    outcome[m] = "committed" => m < lastUpsert'.row]_vars

C30_Witness ==
    /\ Len(flushSizes) >= 2
    /\ flushOwner # "none" /\ Len(batchToProcess) = 2 /\ idx = 2
    /\ batchToProcess[1].id = batchToProcess[2].id
    /\ outcome[batchToProcess[1].row] = "committed"
    /\ lastUpsert = [row |-> batchToProcess[1].row, n |-> 2, error |-> ""]

\* ------------------------------------------------------------------ C29
\* nothing of the run is pending: processStream has settled, no
\* processBatch call polls the guard or runs a flush
Quiescent == Settled /\ waiters = 0 /\ flushOwner = "none" /\ ~isProcessing

\* C29: for a finite input and a storage whose calls all settle,
\* processStream eventually returns or throws, every processBatch call,
\* polling or flushing, eventually finishes, and waitForProcessing
\* eventually returns: the run comes to rest for good.
C29_RunComesToRest == <>[]Quiescent

C29_Witness ==
    /\ Quiescent
    /\ pc = "returned"
    /\ \E i \in 1..Len(flushSizes) : flushSizes[i] > batchSize

\* ------------------------------------------------------------------ C31
PingFails == failedPings' = failedPings + 1
ReconnectFails == reconnects' = reconnects - 1 /\ prismaClients' = prismaClients

\* C31: the step in which a keep-alive ping fails, and the step in which
\* the reconnect after it fails, leave processStream where it is (it does
\* not throw) and leave processedCount, errorRows and the current batch as
\* they are; a failed ping starts one reconnect attempt and no more.
C31_KeepAliveFailureIsSilent ==
    /\ [](reconnectAttempts <= failedPings)
    /\ [][PingFails \/ ReconnectFails =>
            /\ pc' = pc /\ thrown' = thrown
            /\ processedCount' = processedCount
            /\ errorRows' = errorRows
            /\ currentBatch' = currentBatch
            /\ reconnectAttempts' - reconnectAttempts <= failedPings' - failedPings]_vars

C31_Witness ==
    /\ pc = "returned"
    /\ failedPings = 2
    /\ prismaClients = 2
    /\ pings = 0 /\ reconnects = 0
    /\ result[1].count >= 1

\* ------------------------------------------------------------------ C35
\* processStream is between its start and its summary or catch block
ActiveRun == pc \in {"pipeline", "finalWait", "finalFlush", "waitForProcessing"}

\* C35: during the whole active run, whatever the transformer and the flush
\* are doing, the run is marked active, the timer is set and a tick can
\* fire; and a tick issues a ping only while the run is active.
C35_KeepAliveThroughoutRun ==
    /\ [](ActiveRun => processingActive /\ keepAliveInterval)
    /\ [](processingActive /\ ticks < MaxTicks => ENABLED KeepAliveTick)
    /\ [][pings' = pings + 1 => processingActive /\ keepAliveInterval]_vars

C35_Witness ==
    /\ pc = "waitForProcessing"
    /\ isProcessing
    /\ ticks = MaxTicks /\ pings >= 1

\* ------------------------------------------------------------------ C39
\* C39: every summary processStream builds, and so every summary it
\* returns, has success = true, whatever its count and errorCount; a run
\* that returns has built one and has thrown nothing, and a run that fails
\* has thrown an error.
C39_SummaryAlwaysSuccess ==
    /\ result # <<>> => result[1].success = TRUE
    /\ pc = "returned" => result # <<>> /\ thrown = ""
    /\ pc = "thrown" => thrown # ""

\* a run returns a summary with no record committed and rows in error
C39_Witness ==
    /\ pc = "returned"
    /\ result[1].count = 0
    /\ result[1].errorCount > 0
    /\ result[1].success

\* ------------------------------------------------------------------ C36
CommitterErrors ==
    {RecordError(id, UpsertErrors[k]) : id \in Ids, k \in 1..Len(UpsertErrors)}
NumberedAs(n) == {i \in 1..Len(errorRows) : errorRows[i].row = n}

\* C36: the row number of every recorded ErrorRow is -1 or lies between 1
\* and the number of data rows delivered so far.  An ErrorRow with a row
\* number is the one ErrorRow of the data row with that index, a row that
\* failed the validation or the transformation; an ErrorRow with -1 was
\* recorded by the committer, one for each record that exhausted its
\* retries.
C36_ErrorRowNumbers ==
    /\ \A i \in 1..Len(errorRows) :
          LET e == errorRows[i]
          IN  /\ e.row = -1 \/ e.row \in 1..rowNumber
              /\ e.row = -1 <=> e.error \in CommitterErrors
              /\ e.row # -1 =>
                    /\ outcome[e.row] \in {"rejected", "threw"}
                    /\ outcome[e.row] = "rejected" <=> e.error = MissingFieldError
                    /\ NumberedAs(e.row) = {i}
    /\ \A n \in 1..rowNumber :
          outcome[n] \in {"rejected", "threw"} => NumberedAs(n) # {}
    /\ Cardinality(NumberedAs(-1)) =
          Cardinality({n \in 1..rowNumber : outcome[n] = "failed"})

\* a record exhausted its retries before a later row failed the
\* validation and another the transformation
C36_Witness ==
    /\ Len(errorRows) = 3
    /\ errorRows[1].row = -1
    /\ errorRows[2].row = 3 /\ outcome[3] = "threw"
    /\ errorRows[3].row = 4 /\ outcome[4] = "rejected"

\* ------------------------------------------------------------------ C37
\* each element v of a list replaced by {name: v}
NameObjects(list) == JArr([i \in 1..Len(list.xs) |-> JObj(K_name :> list.xs[i])])

\* C37: for every input parseCast(x) is parseCastNames(x) with each
\* element v replaced by {name: v}, so the two lists have the same length
\* and order; the try blocks of the two parsers raise on the same inputs,
\* so both take the fallback of the catch block or neither does.
C37_CastIsNamesWrapped ==
    /\ Len(ret) = 2 => ret[2] = NameObjects(ret[1])
    /\ (CastTry(arg) = Throw) <=> (CastNamesTry(arg) = Throw)

\* both parsers have read an array of a string and an object without name
C37_Witness ==
    /\ Len(ret) = 2
    /\ arg = JArr(<<JStr(<<"A">>), JObj(K_id :> JNum(5))>>)
    /\ ret[1] = JArr(<<JStr(<<"A">>), JStr(UnknownActor)>>)
    /\ ret[2] = JArr(<<JObj(K_name :> JStr(<<"A">>)),
                       JObj(K_name :> JStr(UnknownActor))>>)

\* ------------------------------------------------------------------ C38
\* C38: once the temporary file exists, handleImport returns or throws
\* only out of one of its two cleanups, where fs.remove(tempFilePath) has
\* been called, whether or not the removal succeeded.
C38_TempFileRemovedOnEveryPath ==
    [][/\ hPc' # hPc
       /\ hPc' \in {"returned", "thrown"}
       /\ tempFile # "none"
       => hPc \in {"cleanup", "errorCleanup"}]_vars

\* ------------------------------------------------------------------ C32
\* records given to processBatch, and so to createMany, so far
CsvHanded == SumSeq([i \in 1..Len(csvInserts) |-> csvInserts[i].size])

\* C32: the count importMovies returns is the number of records it handed
\* to the storage for insertion, and the batch is flushed each time it
\* reaches the batch size: between two rows it is shorter than that.
C32_CountIsWhatWasInserted ==
    /\ csvPc = "returned" => csvRet[1].count = CsvHanded
    /\ csvPc = "pipeline" /\ csvAwaiting = "none" => Len(csvBatch) < batchSize

\* ------------------------------------------------------------------ C33
\* C33: importMovies returns no summary with errorCount = 0 after an
\* insert of a batch has failed.
C33_FailedInsertIsVisible ==
    csvPc = "returned" /\ (\E i \in 1..Len(csvInserts) : ~csvInserts[i].ok)
        => csvRet[1].errorCount > 0

\* ------------------------------------------------------------------ C34
\* C34: validateCsvHeaders eventually completes -- it returns a message or
\* null, or it rejects -- for every stream, also one that emits an error
\* or is closed before its end.
C34_ValidationCompletes == <>(ret # <<>>)
====
